---- MODULE Spec2Model ----
(***************************************************************************)
(* Model of bridge::SharedMemoryAudioRing (src/common/SharedMemoryAudioRing *)
(* .h/.cpp): a single-producer/single-consumer ring of interleaved float   *)
(* frames in a file-backed shared mapping, with two frame indices of fixed  *)
(* unsigned width.                                                          *)
(*                                                                          *)
(* Every handler is cut into the steps at which another process can         *)
(* observe or disturb it: the plain reads of header->channels and           *)
(* header->capacity_frames, the two atomic index loads, one memcpy per      *)
(* frame, and the atomic index store.                                       *)
(***************************************************************************)
EXTENDS Integers, Sequences, FiniteSets, TLC

\* ---------------------------------------------------------------- bounds
\* Width in bits of the frame indices (uint32_t in the program).
IndexBits == 3
\* A call asks for at most capacity_frames + MaxExtra frames.
MaxExtra == 1
\* Number of distinct sample values per channel in a caller's source buffer.
NumTags == 2
\* Calls the two processes begin in a run that opens and reopens the ring.
MaxCalls == 4
\* Longest ring name tried.
MaxNameLen == 3
\* (channels, capacity_frames) pairs a ring is created with: a capacity
\* that divides 2^IndexBits and one that does not.
Configs == {<<1, 3>>, <<2, 2>>}

\* ------------------------------------------------------ program constants
kMagic == 1396789826
kVersion == 1
HeaderSize == 24
SampleSize == 4

IndexModulus == 2 ^ IndexBits

Procs == {"producer", "consumer"}

\* Value of every sample of a caller's destination buffer before Read.
Poison == 0 - 1

VARIABLES
  file,     \* the backing object: [exists, size] (size in bytes)
  hdr,      \* the Header at offset 0 of the backing object
  data,     \* the float samples after the header, data[i+1] is sample i
  inst,     \* per process: the members of its SharedMemoryAudioRing
  caller,   \* per process: the (channels, capacity_frames) it opened with
  pc,       \* per process: position inside the handler it is running
  loc,      \* per process: arguments, locals and result of its last call
  held,     \* per process: descriptors and mappings the kernel holds for it
  pending,  \* history: frames accepted by Write and not yet returned by Read
  budget,   \* calls the processes may still begin (negative: any number)
  g_io_client_count,    \* driver: std::atomic<UInt32> g_io_client_count
  g_sample_rate,        \* driver: std::atomic<Float64> g_sample_rate
  g_buffer_frame_size,  \* driver: std::atomic<UInt32> g_buffer_frame_size
  g_clock,              \* driver: g_anchor_host_time and g_clock_seed
  g_ring_mutex,         \* driver: the thread that holds g_ring_mutex, or "free"
  g_speaker_tap_ring,   \* driver: its second ring, by its open state only
  tpc,      \* per driver thread: position inside the entry point it runs
  tloc,     \* per driver thread: arguments, locals and result of its call
  ios       \* history: StartIO and StopIO calls that have returned

driverVars == <<g_io_client_count, g_sample_rate, g_buffer_frame_size, g_clock,
                g_ring_mutex, g_speaker_tap_ring, tpc, tloc, ios>>

vars == <<file, hdr, data, inst, held, caller, pc, loc, pending, budget, driverVars>>

\* ------------------------------------------------- the driver's constants
\* AudioObjectIDs: kAudioObjectPlugInObject, the device, its two streams.
kObjectIDPlugIn == 1
kObjectIDDevice == 2
kObjectIDStreamInput == 3
kObjectIDStreamOutput == 4
\* An AudioObjectID the driver does not know.
UnknownObjectID == kObjectIDStreamOutput + 1
ObjectIDs == {kObjectIDPlugIn, kObjectIDDevice, kObjectIDStreamInput,
              kObjectIDStreamOutput, UnknownObjectID}

kChannelCount == 2
kDefaultSampleRate == 48000
kDefaultBufferFrameSize == 480
\* The limits DriverSetPropertyData puts on kAudioDevicePropertyBufferFrameSize.
MinBufferFrameSize == 64
MaxBufferFrameSize == 4096
\* capacity_frames of the driver's rings (48000 in the program, which does
\* not divide 2^32; here a capacity that does not divide 2^IndexBits).
kRingCapacityFrames == 3

\* The threads of the host that call into the driver.
Threads == {"t1", "t2"}

\* A driver thread that is in no call and has made none.
NoEntry ==
  [op |-> "none", status |-> "none", object |-> 0, selector |-> "none",
   operation |-> "none", null |-> FALSE, frame_size |-> 0, io |-> <<>>,
   got |-> 0, read_buf |-> <<>>, current |-> 0, previous |-> 0,
   size_ok |-> FALSE, value |-> 0, channels |-> 0, lpcm |-> FALSE, out |-> 0]

\* The driver's globals after static initialisation, before any entry
\* point has run.
DriverLoaded ==
  /\ g_io_client_count = 0
  /\ g_sample_rate = kDefaultSampleRate
  /\ g_buffer_frame_size = kDefaultBufferFrameSize
  /\ g_clock = [anchor_host_time |-> 0, seed |-> 1]
  /\ g_ring_mutex = "free"
  /\ g_speaker_tap_ring = [open |-> FALSE]
  /\ tpc = [t \in Threads |-> "idle"]
  /\ tloc = [t \in Threads |-> NoEntry]
  /\ ios = [starts |-> 0, stops |-> 0]

\* ------------------------------------------------------------ arithmetic
\* uint32_t subtraction and addition, wrapping at the index width.
Sub32(a, b) == (a - b + IndexModulus) % IndexModulus

Add32OffByOne(a, b) == (a + b + 1) % IndexModulus

Add32(a, b) == (a + b) % IndexModulus

MinU32(a, b) == IF a < b THEN a ELSE b

MinSizeTTakesLarger(a, b) == IF a < b THEN b ELSE a

MinSizeT(a, b) == IF a < b THEN a ELSE b

\* size_t is twice as wide as the uint32_t indices and parameters.
SizeBits == 2 * IndexBits

SizeModulus == 2 ^ SizeBits

\* sizeof(Header) + sizeof(float) * size_t(channels) * size_t(capacity_frames),
\* in size_t arithmetic.
MappingSize(channels, capacity_frames) ==
  (HeaderSize + ((SampleSize * channels * capacity_frames) % SizeModulus)) % SizeModulus

\* Number of whole samples of the frame buffer inside a region of `size` bytes.
SamplesIn(size) == IF size <= HeaderSize THEN 0 ELSE (size - HeaderSize) \div SampleSize

Zeros(n) == [i \in 1..n |-> 0]

\* ------------------------------------------------------- Write / Read math
UsedFramesWrapBlind(write, read) == IF write >= read THEN write - read ELSE 0

\* const uint32_t used = write - read;
UsedFrames(write, read) == Sub32(write, read)

FreeFramesIgnoringUsed(capacity, used) == capacity

\* const uint32_t free_frames = capacity - MinU32(used, capacity);
FreeFrames(capacity, used) == capacity - MinU32(used, capacity)

ToWriteWholeBuffer(frame_count, free_frames) == frame_count

ToWriteAtLeastOne(frame_count, free_frames) ==
  IF free_frames = 0 THEN 1 ELSE MinSizeT(frame_count, free_frames)

\* const uint32_t to_write = MinSizeT(frame_count, free_frames);
ToWrite(frame_count, free_frames) == MinSizeT(frame_count, free_frames)

AvailableFramesAsIfFull(capacity, write, read) == capacity

\* const uint32_t available = MinU32(write - read, capacity);
AvailableFrames(capacity, write, read) == MinU32(UsedFrames(write, read), capacity)

ToReadIgnoringAvailable(frame_count, available) == frame_count

\* const uint32_t to_read = MinSizeT(frame_count, available);
ToRead(frame_count, available) == MinSizeT(frame_count, available)

FrameSlotNoModulo(index, frame, capacity) == Add32(index, frame)

\* const uint32_t dst_frame = (write + frame) % capacity;  (and src_frame)
FrameSlot(index, frame, capacity) == Add32(index, frame) % capacity

\* static_cast<size_t>(frame) * channels
SampleIndex(frame, channels) == frame * channels

\* ------------------------------------------------------------- buffers
\* Sample of channel c (0-based) of a frame carrying tag t.
SampleOf(t, c) == c * NumTags + t + 1

\* A caller's source buffer of n frames: frame i carries tag
\* (base + i * step) % NumTags.
RampBuffer(channels, n, base, step) ==
  [k \in 1..(n * channels) |->
     SampleOf((base + ((k - 1) \div channels) * step) % NumTags, (k - 1) % channels)]

\* Source buffers whose frames are all alike (the sample values play no part).
FlatBuffers(channels, n) == {RampBuffer(channels, n, 0, 0)}

\* A caller's source buffer of n frames whose tag changes every second frame.
PairBuffer(channels, n, base) ==
  [k \in 1..(n * channels) |->
     SampleOf((base + (((k - 1) \div channels) \div 2)) % NumTags, (k - 1) % channels)]

\* Source buffers in which frames one or two apart differ.
RampBuffers(channels, n) ==
  {RampBuffer(channels, n, base, 1) : base \in 0..(NumTags - 1)}
    \cup {PairBuffer(channels, n, base) : base \in 0..(NumTags - 1)}

\* A caller's destination buffer before Read.
BlankBuffer(channels, n) == [k \in 1..(n * channels) |-> Poison]

\* The `channels` samples starting at 0-based sample offset `off` of `buf`.
FrameAt(buf, off, channels) == [c \in 1..channels |-> buf[off + c]]

PutFrameAndNext(buf, off, channels, fr) ==
  [k \in 1..Len(buf) |->
     IF k > off /\ k <= off + channels THEN fr[k - off]
     ELSE IF k = off + channels + 1 THEN fr[1] ELSE buf[k]]

\* `buf` with the `channels` samples at 0-based offset `off` replaced by `fr`.
PutFrame(buf, off, channels, fr) ==
  [k \in 1..Len(buf) |->
     IF k > off /\ k <= off + channels THEN fr[k - off] ELSE buf[k]]

\* The first n frames of a caller's buffer, as a sequence of frames.
FramesOf(buf, n, channels) ==
  [i \in 1..n |-> FrameAt(buf, (i - 1) * channels, channels)]

\* Arguments, locals and result of a call; the history fields are
\*   usedAtLoad  frames truly buffered when the call loaded the peer's index
\*   fromEmpty   (Write) the ring was empty at that load
\*   roundTrip   (Read) the call began when the ring held exactly the frames
\*               of one completed Write into an empty ring, and asks for them
\*   orig        (Read) those frames
\*   expect      (Read) the accepted frames this call consumed
\*   kept        (Open) the call has not reset the ring
\*   name, path  (Open) the name argument and the backing path made from it
\*   afterAttach (Read) the call before it, by the same process, was an Open
\*               with create = false that returned true without a reset, and
\*               the ring still has that configuration and the unread frames
NoCall ==
  [op |-> "none", null |-> FALSE, frame_count |-> 0, buf |-> <<>>,
   channels |-> 0, capacity |-> 0, write |-> 0, read |-> 0,
   used |-> 0, free |-> 0, n |-> 0, frame |-> 0, ret |-> 0,
   slot |-> 0 - 1, acc |-> <<>>, usedAtLoad |-> 0 - 1, fromEmpty |-> FALSE,
   roundTrip |-> FALSE, orig |-> <<>>, expect |-> <<>>,
   create |-> FALSE, arg_channels |-> 0, arg_capacity |-> 0, ok |-> FALSE,
   emptyName |-> FALSE, kept |-> FALSE, afterAttach |-> FALSE,
   wasOpen |-> FALSE, name |-> <<>>, path |-> <<>>]

\* What the caller holds once the call has returned `ret`.
Returned(l, ret) ==
  [NoCall EXCEPT !.op = l.op, !.null = l.null, !.frame_count = l.frame_count,
                 !.buf = IF l.op = "Read" THEN l.buf ELSE <<>>,
                 !.ret = ret, !.fromEmpty = l.fromEmpty,
                 !.roundTrip = l.roundTrip, !.orig = l.orig, !.expect = l.expect,
                 !.create = l.create, !.arg_channels = l.arg_channels,
                 !.arg_capacity = l.arg_capacity, !.emptyName = l.emptyName,
                 !.kept = l.kept, !.wasOpen = l.wasOpen,
                 !.afterAttach = l.afterAttach]

\* A call begins: one less may begin after it.
Spend == budget # 0 /\ budget' = IF budget < 0 THEN budget ELSE budget - 1

\* ------------------------------------------------------------------ Init
\* InitializeIfNeeded's reset: memset of the mapping, then the six fields.
FreshHeader(channels, capacity_frames) ==
  [magic |-> kMagic, version |-> kVersion, channels |-> channels,
   capacity_frames |-> capacity_frames, write_index |-> 0, read_index |-> 0]

OpenInstance(channels, capacity_frames) ==
  [shm_fd |-> 3, mapping |-> TRUE,
   mapping_size |-> MappingSize(channels, capacity_frames),
   header |-> TRUE, name |-> "ring"]

\* The ring right after the producer process created it (create = true) and
\* the consumer process attached with the same parameters (create = false).
RingOpenedWith(cfg, calls) ==
  /\ file = [exists |-> TRUE, size |-> MappingSize(cfg[1], cfg[2])]
  /\ hdr = FreshHeader(cfg[1], cfg[2])
  /\ data = Zeros(cfg[1] * cfg[2])
  /\ inst = [p \in Procs |-> OpenInstance(cfg[1], cfg[2])]
  /\ held = [p \in Procs |-> [fds |-> 1, maps |-> 1]]
  /\ caller = [p \in Procs |-> [channels |-> cfg[1], capacity_frames |-> cfg[2]]]
  /\ pc = [p \in Procs |-> "idle"]
  /\ loc = [p \in Procs |-> NoCall]
  /\ pending = <<>>
  /\ budget = calls
  /\ DriverLoaded

RingOpened(cfg) == RingOpenedWith(cfg, 0 - 1)

Init == \E cfg \in Configs : RingOpened(cfg)

\* Does the memcpy of `channels` samples at 0-based sample offset `off` of the
\* frame buffer stay inside p's mapping and inside the backing object?
InMapping(p, off, channels) ==
  /\ inst[p].mapping
  /\ off >= 0
  /\ off + channels <= SamplesIn(inst[p].mapping_size)
  /\ off + channels <= SamplesIn(file.size)

InCallerBuffer(buf, off, channels) == off >= 0 /\ off + channels <= Len(buf)

\* ----------------------------------------------------------------- Write
RejectsOnlyClosed(header, isNull, frame_count) == ~header

\* if (header_ == nullptr || interleaved_frames == nullptr || frame_count == 0)
\*   return 0;
Rejects(header, isNull, frame_count) == ~header \/ isNull \/ frame_count = 0

WriteBegin(p, isNull, frame_count, frames) ==
  /\ pc[p] = "idle"
  /\ Spend
  /\ LET call == [NoCall EXCEPT !.op = "Write", !.null = isNull,
                                !.frame_count = frame_count,
                                !.buf = IF isNull THEN <<>> ELSE frames]
     IN IF Rejects(inst[p].header, isNull, frame_count)
        THEN /\ loc' = [loc EXCEPT ![p] = Returned(call, 0)]
             /\ pc' = pc
        ELSE /\ loc' = [loc EXCEPT ![p] = call]
             /\ pc' = [pc EXCEPT ![p] = "w_channels"]
  /\ UNCHANGED <<file, hdr, data, inst, held, caller, pending, driverVars>>

WriteReadChannels(p) ==
  /\ pc[p] = "w_channels"
  /\ loc' = [loc EXCEPT ![p].channels = hdr.channels]
  /\ pc' = [pc EXCEPT ![p] = "w_capacity"]
  /\ UNCHANGED <<file, hdr, data, inst, held, caller, pending, budget, driverVars>>

WriteReadCapacity(p) ==
  /\ pc[p] = "w_capacity"
  /\ loc' = [loc EXCEPT ![p].capacity = hdr.capacity_frames]
  /\ pc' = [pc EXCEPT ![p] = "w_load_write"]
  /\ UNCHANGED <<file, hdr, data, inst, held, caller, pending, budget, driverVars>>

WriteLoadWrite(p) ==
  /\ pc[p] = "w_load_write"
  /\ loc' = [loc EXCEPT ![p].write = hdr.write_index]
  /\ pc' = [pc EXCEPT ![p] = "w_load_read"]
  /\ UNCHANGED <<file, hdr, data, inst, held, caller, pending, budget, driverVars>>

\* The load of read_index and the arithmetic on the loaded values.
WriteLoadRead(p) ==
  /\ pc[p] = "w_load_read"
  /\ LET l == loc[p]
         read == hdr.read_index
         used == UsedFrames(l.write, read)
         free_frames == FreeFrames(l.capacity, used)
     IN loc' = [loc EXCEPT ![p].read = read, ![p].used = used,
                           ![p].free = free_frames,
                           ![p].n = ToWrite(l.frame_count, free_frames),
                           ![p].usedAtLoad = Len(pending),
                           ![p].fromEmpty = (pending = <<>>)]
  /\ pc' = [pc EXCEPT ![p] = "w_check"]
  /\ UNCHANGED <<file, hdr, data, inst, held, caller, pending, budget, driverVars>>

\* if (to_write == 0) return 0;
WriteCheck(p) ==
  /\ pc[p] = "w_check"
  /\ IF loc[p].n = 0
     THEN /\ loc' = [loc EXCEPT ![p] = Returned(loc[p], 0)]
          /\ pc' = [pc EXCEPT ![p] = "idle"]
     ELSE /\ loc' = loc
          /\ pc' = [pc EXCEPT ![p] = "w_copy"]
  /\ UNCHANGED <<file, hdr, data, inst, held, caller, pending, budget, driverVars>>

WriteCopy(p) ==
  /\ pc[p] = "w_copy"
  /\ LET l == loc[p]
         dst_frame == FrameSlot(l.write, l.frame, l.capacity)
         src_idx == SampleIndex(l.frame, l.channels)
         dst_idx == SampleIndex(dst_frame, l.channels)
     IN IF InMapping(p, dst_idx, l.channels) /\ InCallerBuffer(l.buf, src_idx, l.channels)
        THEN /\ data' = PutFrame(data, dst_idx, l.channels,
                                 FrameAt(l.buf, src_idx, l.channels))
             /\ loc' = [loc EXCEPT ![p].frame = l.frame + 1,
                                   ![p].slot = dst_frame,
                                   ![p].acc = <<dst_idx, dst_idx + l.channels - 1>>]
             /\ pc' = [pc EXCEPT ![p] = IF l.frame + 1 < l.n THEN "w_copy" ELSE "w_store"]
        ELSE /\ data' = data
             /\ loc' = [loc EXCEPT ![p].slot = dst_frame,
                                   ![p].acc = <<dst_idx, dst_idx + l.channels - 1>>]
             /\ pc' = [pc EXCEPT ![p] = "fault"]
  /\ UNCHANGED <<file, hdr, inst, held, caller, pending, budget, driverVars>>

\* (variant) the store adds to_write to the index found in the header at
\* the time of the store, as an atomic fetch-and-add would.
WriteStoreAddsToCurrent(p) ==
  /\ pc[p] = "w_store"
  /\ LET l == loc[p]
     IN /\ hdr' = [hdr EXCEPT !.write_index = Add32(hdr.write_index, l.n)]
        /\ pending' = pending \o FramesOf(l.buf, l.n, l.channels)
        /\ loc' = [loc EXCEPT ![p] = Returned(l, l.n)]
  /\ pc' = [pc EXCEPT ![p] = "idle"]
  /\ UNCHANGED <<file, data, inst, held, caller, budget, driverVars>>

WriteStore(p) ==
  /\ pc[p] = "w_store"
  /\ LET l == loc[p]
     IN /\ hdr' = [hdr EXCEPT !.write_index = Add32(l.write, l.n)]
        /\ pending' = pending \o FramesOf(l.buf, l.n, l.channels)
        /\ loc' = [loc EXCEPT ![p] = Returned(l, l.n)]
  /\ pc' = [pc EXCEPT ![p] = "idle"]
  /\ UNCHANGED <<file, data, inst, held, caller, budget, driverVars>>

\* ------------------------------------------------------------------ Read
\* Is the ring holding exactly the frames of the last Write of the other
\* process, which found the ring empty and took its whole buffer?
HoldsOneWrite(p, frame_count) ==
  \E q \in Procs \ {p} :
    /\ pc[q] = "idle"
    /\ loc[q].op = "Write"
    /\ loc[q].fromEmpty
    /\ loc[q].ret = loc[q].frame_count
    /\ loc[q].ret = frame_count
    /\ Len(pending) = frame_count

\* The header holds the fixed constants and the requested parameters.
HeaderMatches(channels, capacity_frames) ==
  /\ hdr.magic = kMagic
  /\ hdr.version = kVersion
  /\ hdr.channels = channels
  /\ hdr.capacity_frames = capacity_frames

\* The frame buffer holds the accepted, unread frames, oldest at read_index.
RingHolds ==
  /\ Sub32(hdr.write_index, hdr.read_index) = Len(pending)
  /\ hdr.capacity_frames > 0
  /\ hdr.capacity_frames * hdr.channels <= Len(data)
  /\ \A j \in 1..Len(pending) :
       FrameAt(data, SampleIndex(FrameSlot(hdr.read_index, j - 1, hdr.capacity_frames),
                                 hdr.channels), hdr.channels) = pending[j]

ReadBegin(p, isNull, frame_count) ==
  /\ pc[p] = "idle"
  /\ Spend
  /\ LET rt == frame_count > 0 /\ HoldsOneWrite(p, frame_count)
         call == [NoCall EXCEPT !.op = "Read", !.null = isNull,
                                !.frame_count = frame_count,
                                !.buf = IF isNull THEN <<>>
                                        ELSE BlankBuffer(caller[p].channels, frame_count),
                                !.roundTrip = rt,
                                !.afterAttach =
                                  (/\ loc[p].op = "Open" /\ loc[p].ok
                                   /\ ~loc[p].create /\ loc[p].kept
                                   /\ HeaderMatches(caller[p].channels,
                                                    caller[p].capacity_frames)
                                   /\ RingHolds),
                                !.orig = IF rt THEN pending ELSE <<>>]
     IN IF Rejects(inst[p].header, isNull, frame_count)
        THEN /\ loc' = [loc EXCEPT ![p] = Returned(call, 0)]
             /\ pc' = pc
        ELSE /\ loc' = [loc EXCEPT ![p] = call]
             /\ pc' = [pc EXCEPT ![p] = "r_channels"]
  /\ UNCHANGED <<file, hdr, data, inst, held, caller, pending, driverVars>>

ReadReadChannels(p) ==
  /\ pc[p] = "r_channels"
  /\ loc' = [loc EXCEPT ![p].channels = hdr.channels]
  /\ pc' = [pc EXCEPT ![p] = "r_capacity"]
  /\ UNCHANGED <<file, hdr, data, inst, held, caller, pending, budget, driverVars>>

ReadReadCapacity(p) ==
  /\ pc[p] = "r_capacity"
  /\ loc' = [loc EXCEPT ![p].capacity = hdr.capacity_frames]
  /\ pc' = [pc EXCEPT ![p] = "r_load_write"]
  /\ UNCHANGED <<file, hdr, data, inst, held, caller, pending, budget, driverVars>>

ReadLoadWrite(p) ==
  /\ pc[p] = "r_load_write"
  /\ loc' = [loc EXCEPT ![p].write = hdr.write_index,
                        ![p].usedAtLoad = Len(pending)]
  /\ pc' = [pc EXCEPT ![p] = "r_load_read"]
  /\ UNCHANGED <<file, hdr, data, inst, held, caller, pending, budget, driverVars>>

\* The load of read_index and the arithmetic on the loaded values.
ReadLoadRead(p) ==
  /\ pc[p] = "r_load_read"
  /\ LET l == loc[p]
         read == hdr.read_index
         available == AvailableFrames(l.capacity, l.write, read)
     IN loc' = [loc EXCEPT ![p].read = read, ![p].used = available,
                           ![p].n = ToRead(l.frame_count, available)]
  /\ pc' = [pc EXCEPT ![p] = "r_check"]
  /\ UNCHANGED <<file, hdr, data, inst, held, caller, pending, budget, driverVars>>

\* if (to_read == 0) return 0;
ReadCheck(p) ==
  /\ pc[p] = "r_check"
  /\ IF loc[p].n = 0
     THEN /\ loc' = [loc EXCEPT ![p] = Returned(loc[p], 0)]
          /\ pc' = [pc EXCEPT ![p] = "idle"]
     ELSE /\ loc' = loc
          /\ pc' = [pc EXCEPT ![p] = "r_copy"]
  /\ UNCHANGED <<file, hdr, data, inst, held, caller, pending, budget, driverVars>>

ReadCopy(p) ==
  /\ pc[p] = "r_copy"
  /\ LET l == loc[p]
         src_frame == FrameSlot(l.read, l.frame, l.capacity)
         src_idx == SampleIndex(src_frame, l.channels)
         dst_idx == SampleIndex(l.frame, l.channels)
     IN IF InMapping(p, src_idx, l.channels) /\ InCallerBuffer(l.buf, dst_idx, l.channels)
        THEN /\ loc' = [loc EXCEPT ![p].buf = PutFrame(l.buf, dst_idx, l.channels,
                                                       FrameAt(data, src_idx, l.channels)),
                                   ![p].frame = l.frame + 1,
                                   ![p].slot = src_frame,
                                   ![p].acc = <<src_idx, src_idx + l.channels - 1>>]
             /\ pc' = [pc EXCEPT ![p] = IF l.frame + 1 < l.n THEN "r_copy" ELSE "r_store"]
        ELSE /\ loc' = [loc EXCEPT ![p].slot = src_frame,
                                   ![p].acc = <<src_idx, src_idx + l.channels - 1>>]
             /\ pc' = [pc EXCEPT ![p] = "fault"]
  /\ UNCHANGED <<file, hdr, data, inst, held, caller, pending, budget, driverVars>>

ReadStore(p) ==
  /\ pc[p] = "r_store"
  /\ LET l == loc[p]
         k == MinU32(l.n, Len(pending))
     IN /\ hdr' = [hdr EXCEPT !.read_index = Add32(l.read, l.n)]
        /\ pending' = SubSeq(pending, k + 1, Len(pending))
        /\ loc' = [loc EXCEPT ![p] = Returned([l EXCEPT !.expect = SubSeq(pending, 1, k)], l.n)]
  /\ pc' = [pc EXCEPT ![p] = "idle"]
  /\ UNCHANGED <<file, data, inst, held, caller, budget, driverVars>>

\* ---------------------------------------------------------- Open / Close
ZeroHeader ==
  [magic |-> 0, version |-> 0, channels |-> 0, capacity_frames |-> 0,
   write_index |-> 0, read_index |-> 0]

\* The members after the constructor and after Close().
ClosedInstance ==
  [shm_fd |-> 0 - 1, mapping |-> FALSE, mapping_size |-> 0, header |-> FALSE, name |-> ""]

\* The samples of the backing object after ftruncate to `size` bytes.
Resized(samples, size) ==
  [k \in 1..SamplesIn(size) |-> IF k <= Len(samples) THEN samples[k] ELSE 0]

WipedNothing(samples, size) == samples

\* The samples after memset(mapping_, 0, size) through a mapping of `size` bytes.
Wiped(samples, size) ==
  [k \in 1..Len(samples) |-> IF k <= SamplesIn(size) THEN 0 ELSE samples[k]]

AfterCloseUnguarded(p) == [fds |-> held[p].fds - 1, maps |-> held[p].maps - 1]

\* (variant) Close() releases nothing.
AfterCloseKeepsAll(p) == held[p]

\* What the kernel holds for p once Close() has run: munmap if mapping_ is
\* not null, close if shm_fd_ >= 0.
AfterClose(p) ==
  [fds |-> held[p].fds - (IF inst[p].shm_fd >= 0 THEN 1 ELSE 0),
   maps |-> held[p].maps - (IF inst[p].mapping THEN 1 ELSE 0)]

OpenFailsHalfOpen(p, call) ==
  /\ inst' = inst
  /\ held' = held
  /\ loc' = [loc EXCEPT ![p] = [Returned(call, 0) EXCEPT !.ok = FALSE]]
  /\ pc' = [pc EXCEPT ![p] = "idle"]

\* Open returns false (after Close() has run).
OpenFails(p, call) ==
  /\ inst' = [inst EXCEPT ![p] = ClosedInstance]
  /\ held' = [held EXCEPT ![p] = AfterClose(p)]
  /\ loc' = [loc EXCEPT ![p] = [Returned(call, 0) EXCEPT !.ok = FALSE]]
  /\ pc' = [pc EXCEPT ![p] = "idle"]

InvalidArgsNameOnly(emptyName, channels, capacity_frames) == emptyName

\* if (name.empty() || channels == 0 || capacity_frames == 0) return false;
InvalidArgs(emptyName, channels, capacity_frames) ==
  emptyName \/ channels = 0 \/ capacity_frames = 0

\* (variant) open(2) is always given O_CREAT.
OpenBeginAlwaysCreates(p, emptyName, create, channels, capacity_frames) ==
  /\ pc[p] = "idle"
  /\ Spend
  /\ caller' = [caller EXCEPT ![p] = [channels |-> channels,
                                      capacity_frames |-> capacity_frames]]
  /\ LET call == [NoCall EXCEPT !.op = "Open", !.create = create, !.kept = TRUE,
                                !.emptyName = emptyName,
                                !.wasOpen = inst[p].header,
                                !.arg_channels = channels,
                                !.arg_capacity = capacity_frames]
     IN IF InvalidArgs(emptyName, channels, capacity_frames)
        THEN OpenFails(p, call) /\ file' = file
        ELSE /\ file' = [file EXCEPT !.exists = TRUE]
             /\ inst' = [inst EXCEPT ![p] = [ClosedInstance EXCEPT !.shm_fd = 3]]
             /\ held' = [held EXCEPT ![p] = [AfterClose(p) EXCEPT !.fds = @ + 1]]
             /\ loc' = [loc EXCEPT ![p] = call]
             /\ pc' = [pc EXCEPT ![p] = "o_truncate"]
  /\ UNCHANGED <<hdr, data, pending, driverVars>>

\* Close(); the argument check; the path; open(2) and fchmod(2).
OpenBegin(p, emptyName, create, channels, capacity_frames) ==
  /\ pc[p] = "idle"
  /\ Spend
  /\ caller' = [caller EXCEPT ![p] = [channels |-> channels,
                                      capacity_frames |-> capacity_frames]]
  /\ LET call == [NoCall EXCEPT !.op = "Open", !.create = create, !.kept = TRUE,
                                !.emptyName = emptyName,
                                !.wasOpen = inst[p].header,
                                !.arg_channels = channels,
                                !.arg_capacity = capacity_frames]
     IN IF InvalidArgs(emptyName, channels, capacity_frames)
        THEN OpenFails(p, call) /\ file' = file
        ELSE IF ~create /\ ~file.exists
        THEN OpenFails(p, call) /\ file' = file
        ELSE /\ file' = [file EXCEPT !.exists = TRUE]
             /\ inst' = [inst EXCEPT ![p] = [ClosedInstance EXCEPT !.shm_fd = 3]]
             /\ held' = [held EXCEPT ![p] = [AfterClose(p) EXCEPT !.fds = @ + 1]]
             /\ loc' = [loc EXCEPT ![p] = call]
             /\ pc' = [pc EXCEPT ![p] = "o_truncate"]
  /\ UNCHANGED <<hdr, data, pending, driverVars>>

\* mapping_size_ = MappingSize(...); ftruncate(2), which succeeds iff `ok`.
OpenTruncate(p, ok) ==
  /\ pc[p] = "o_truncate"
  /\ LET size == MappingSize(loc[p].arg_channels, loc[p].arg_capacity)
     IN IF ok
        THEN /\ file' = [file EXCEPT !.size = size]
             /\ data' = Resized(data, size)
             /\ inst' = [inst EXCEPT ![p].mapping_size = size]
             /\ held' = held
             /\ pc' = [pc EXCEPT ![p] = "o_map"]
             /\ loc' = loc
        ELSE OpenFails(p, loc[p]) /\ file' = file /\ data' = data
  /\ UNCHANGED <<hdr, caller, pending, budget, driverVars>>

\* mmap(2), which succeeds iff `ok`; header_ = mapping_; the create test.
OpenMap(p, ok) ==
  /\ pc[p] = "o_map"
  /\ IF ok
     THEN /\ inst' = [inst EXCEPT ![p].mapping = TRUE, ![p].header = TRUE]
          /\ held' = [held EXCEPT ![p].maps = @ + 1]
          /\ pc' = [pc EXCEPT ![p] = IF loc[p].create THEN "o_memset" ELSE "o_magic"]
          /\ loc' = loc
     ELSE OpenFails(p, loc[p])
  /\ UNCHANGED <<file, hdr, data, caller, pending, budget, driverVars>>

\* One test of InitializeIfNeeded's condition: a mismatch goes to the reset.
OpenTest(p, at, matches, next) ==
  /\ pc[p] = at
  /\ pc' = [pc EXCEPT ![p] = IF matches THEN next ELSE "o_memset"]
  /\ UNCHANGED <<file, hdr, data, inst, held, caller, loc, pending, budget, driverVars>>

OpenTestMagic(p) == OpenTest(p, "o_magic", hdr.magic = kMagic, "o_version")

OpenTestVersion(p) == OpenTest(p, "o_version", hdr.version = kVersion, "o_channels")

OpenTestChannels(p) ==
  OpenTest(p, "o_channels", hdr.channels = loc[p].arg_channels, "o_capacity")

OpenTestCapacityAlwaysResets(p) == OpenTest(p, "o_capacity", FALSE, "o_name")

OpenTestCapacity(p) ==
  OpenTest(p, "o_capacity", hdr.capacity_frames = loc[p].arg_capacity, "o_name")

\* std::memset(mapping_, 0, mapping_size_): the header and the samples the
\* mapping covers; beyond the end of the backing object the store faults.
OpenMemset(p) ==
  /\ pc[p] = "o_memset"
  /\ IF inst[p].mapping_size <= file.size
     THEN /\ hdr' = ZeroHeader
          /\ data' = Wiped(data, inst[p].mapping_size)
          /\ pending' = <<>>
          /\ loc' = [loc EXCEPT ![p].kept = FALSE]
          /\ pc' = [pc EXCEPT ![p] = "o_set_magic"]
     ELSE /\ UNCHANGED <<hdr, data, pending, loc>>
          /\ pc' = [pc EXCEPT ![p] = "fault"]
  /\ UNCHANGED <<file, inst, held, caller, budget, driverVars>>

\* One store of the reset.
OpenSet(p, at, header, next) ==
  /\ pc[p] = at
  /\ hdr' = header
  /\ pc' = [pc EXCEPT ![p] = next]
  /\ UNCHANGED <<file, data, inst, held, caller, loc, pending, budget, driverVars>>

OpenSetMagic(p) == OpenSet(p, "o_set_magic", [hdr EXCEPT !.magic = kMagic], "o_set_version")

OpenSetVersion(p) ==
  OpenSet(p, "o_set_version", [hdr EXCEPT !.version = kVersion], "o_set_channels")

OpenSetChannels(p) ==
  OpenSet(p, "o_set_channels", [hdr EXCEPT !.channels = loc[p].arg_channels],
          "o_set_capacity")

OpenSetCapacity(p) ==
  OpenSet(p, "o_set_capacity", [hdr EXCEPT !.capacity_frames = loc[p].arg_capacity],
          "o_set_write")

OpenSetWrite(p) == OpenSet(p, "o_set_write", [hdr EXCEPT !.write_index = 0], "o_set_read")

OpenSetRead(p) == OpenSet(p, "o_set_read", [hdr EXCEPT !.read_index = 0], "o_name")

\* name_ = backing_file; return true;
OpenFinish(p) ==
  /\ pc[p] = "o_name"
  /\ inst' = [inst EXCEPT ![p].name = "ring"]
  /\ held' = held
  /\ loc' = [loc EXCEPT ![p] = [Returned(loc[p], 0) EXCEPT !.ok = TRUE]]
  /\ pc' = [pc EXCEPT ![p] = "idle"]
  /\ UNCHANGED <<file, hdr, data, caller, pending, budget, driverVars>>

Close(p) ==
  /\ pc[p] = "idle"
  /\ Spend
  /\ inst' = [inst EXCEPT ![p] = ClosedInstance]
  /\ held' = [held EXCEPT ![p] = AfterClose(p)]
  /\ loc' = [loc EXCEPT ![p] = [NoCall EXCEPT !.op = "Close"]]
  /\ UNCHANGED <<file, hdr, data, caller, pc, pending, driverVars>>

OpenSteps(p) ==
  \/ OpenTruncate(p, TRUE)
  \/ OpenMap(p, TRUE)
  \/ OpenTestMagic(p)
  \/ OpenTestVersion(p)
  \/ OpenTestChannels(p)
  \/ OpenTestCapacity(p)
  \/ OpenMemset(p)
  \/ OpenSetMagic(p)
  \/ OpenSetVersion(p)
  \/ OpenSetChannels(p)
  \/ OpenSetCapacity(p)
  \/ OpenSetWrite(p)
  \/ OpenSetRead(p)
  \/ OpenFinish(p)

\* bool is_open() const
IsOpen(p) == inst[p].header

\* uint32_t channels() const
Channels(p) == IF inst[p].header THEN hdr.channels ELSE 0

\* uint32_t capacity_frames() const
CapacityFrames(p) == IF inst[p].header THEN hdr.capacity_frames ELSE 0

\* Any step of a call of Open by p.
OpenCall(p) ==
  \/ \E emptyName \in BOOLEAN, create \in BOOLEAN, channels \in 0..2, capacity_frames \in 0..3 :
       OpenBegin(p, emptyName, create, channels, capacity_frames)
  \/ \E ok \in BOOLEAN : OpenTruncate(p, ok) \/ OpenMap(p, ok)
  \/ OpenSteps(p)

\* ------------------------------------------------------- specifications
FrameCounts(p) == 1..(caller[p].capacity_frames + MaxExtra)

WriteSteps(p) ==
  \/ WriteReadChannels(p)
  \/ WriteReadCapacity(p)
  \/ WriteLoadWrite(p)
  \/ WriteLoadRead(p)
  \/ WriteCheck(p)
  \/ WriteCopy(p)
  \/ WriteStore(p)

ReadSteps(p) ==
  \/ ReadReadChannels(p)
  \/ ReadReadCapacity(p)
  \/ ReadLoadWrite(p)
  \/ ReadLoadRead(p)
  \/ ReadCheck(p)
  \/ ReadCopy(p)
  \/ ReadStore(p)

\* One writer process and one reader process on one ring, no Open or Close
\* while they run; the sample values are all alike.
Next ==
  \/ \E n \in FrameCounts("producer") :
       \E frames \in FlatBuffers(caller["producer"].channels, n) :
         WriteBegin("producer", FALSE, n, frames)
  \/ WriteSteps("producer")
  \/ \E n \in FrameCounts("consumer") : ReadBegin("consumer", FALSE, n)
  \/ ReadSteps("consumer")

Spec == Init /\ [][Next]_vars

\* The same two processes, the producer offering buffers whose neighbouring
\* frames differ, on a ring whose capacity does not divide 2^IndexBits.
InitData == RingOpened(<<1, 3>>)

NextData ==
  \/ \E n \in 1..caller["producer"].capacity_frames :
       \E frames \in RampBuffers(caller["producer"].channels, n) :
         WriteBegin("producer", FALSE, n, frames)
  \/ WriteSteps("producer")
  \/ \E n \in 1..caller["consumer"].capacity_frames : ReadBegin("consumer", FALSE, n)
  \/ ReadSteps("consumer")

SpecData == InitData /\ [][NextData]_vars

\* The same two processes, the producer always offering more frames than
\* the ring can take, so that every Write that accepts frames is partial.
NextPartial ==
  \/ \E frames \in RampBuffers(caller["producer"].channels,
                                caller["producer"].capacity_frames + MaxExtra) :
       WriteBegin("producer", FALSE, caller["producer"].capacity_frames + MaxExtra, frames)
  \/ WriteSteps("producer")
  \/ \E n \in 1..caller["consumer"].capacity_frames : ReadBegin("consumer", FALSE, n)
  \/ ReadSteps("consumer")

SpecPartial == InitData /\ [][NextPartial]_vars

\* The same two processes as threads the scheduler keeps running: the
\* writer keeps calling Write and the reader keeps calling Read, each with
\* frame_count > 0, and a call that has begun runs to its return.
LiveBegin(p) ==
  \E n \in 1..caller[p].capacity_frames :
    IF p = "producer"
    THEN WriteBegin(p, FALSE, n, RampBuffer(caller[p].channels, n, 0, 1))
    ELSE ReadBegin(p, FALSE, n)

LiveSteps(p) == IF p = "producer" THEN WriteSteps(p) ELSE ReadSteps(p)

NextLive == \E p \in Procs : LiveBegin(p) \/ LiveSteps(p)

Scheduled == \A p \in Procs : WF_vars(LiveBegin(p)) /\ WF_vars(LiveSteps(p))

SpecLive == InitData /\ [][NextLive]_vars /\ Scheduled

\* Unsupported use: both processes call Write on the one ring, and the
\* second of them also calls Read, a bounded number of calls in all.
InitTwoWriters == \E cfg \in Configs : RingOpenedWith(cfg, MaxCalls)

NextTwoWriters ==
  \/ \E p \in Procs :
       \E n \in 1..caller[p].capacity_frames :
         \E frames \in FlatBuffers(caller[p].channels, n) :
           WriteBegin(p, FALSE, n, frames)
  \/ \E p \in Procs : WriteSteps(p)
  \/ \E n \in 1..caller["consumer"].capacity_frames : ReadBegin("consumer", FALSE, n)
  \/ ReadSteps("consumer")

SpecTwoWriters == InitTwoWriters /\ [][NextTwoWriters]_vars

\* Two processes that each construct a ring object and open the same ring
\* name, with parameters of their own choice, before and between their
\* Write and Read calls.
Constructed ==
  /\ file = [exists |-> FALSE, size |-> 0]
  /\ hdr = ZeroHeader
  /\ data = <<>>
  /\ inst = [p \in Procs |-> ClosedInstance]
  /\ held = [p \in Procs |-> [fds |-> 0, maps |-> 0]]
  /\ caller = [p \in Procs |-> [channels |-> 0, capacity_frames |-> 0]]
  /\ pc = [p \in Procs |-> "idle"]
  /\ loc = [p \in Procs |-> NoCall]
  /\ pending = <<>>
  /\ budget = MaxCalls
  /\ DriverLoaded

NextReopen ==
  \/ \E p \in Procs, create \in BOOLEAN, cfg \in Configs :
       OpenBegin(p, FALSE, create, cfg[1], cfg[2])
  \/ \E p \in Procs : OpenSteps(p)
  \/ \E n \in 1..caller["producer"].capacity_frames :
       \E frames \in FlatBuffers(caller["producer"].channels, n) :
         WriteBegin("producer", FALSE, n, frames)
  \/ WriteSteps("producer")
  \/ \E n \in 1..caller["consumer"].capacity_frames : ReadBegin("consumer", FALSE, n)
  \/ ReadSteps("consumer")

SpecReopen == Constructed /\ [][NextReopen]_vars

\* One process that opens rings of ordinary and of very large dimensions
\* and writes to them. HalfRange stands for 2^31.
HalfRange == 2 ^ (IndexBits - 1)

SizeArgs == Configs \cup {<<HalfRange, HalfRange>>}

NextSize ==
  \/ \E create \in BOOLEAN, cfg \in SizeArgs :
       OpenBegin("producer", FALSE, create, cfg[1], cfg[2])
  \/ OpenSteps("producer")
  \/ \E n \in 1..caller["producer"].capacity_frames :
       \E frames \in FlatBuffers(caller["producer"].channels, n) :
         WriteBegin("producer", FALSE, n, frames)
  \/ WriteSteps("producer")

SpecSize == Constructed /\ [][NextSize]_vars

\* ------------------------------------------------------------ ring names
\* Names are sequences of characters.
NameChars == {"/", "_", "a"}

Names == UNION {[1..n -> NameChars] : n \in 0..MaxNameLen}

\* if (!path_name.empty() && path_name[0] == '/') path_name.erase(0, 1);
StripNothing(name) == name

StripLeadingSlash(name) == IF name # <<>> /\ name[1] = "/" THEN Tail(name) ELSE name

\* std::replace(path_name.begin(), path_name.end(), '/', '_');
ReplaceSlashes(name) == [i \in 1..Len(name) |-> IF name[i] = "/" THEN "_" ELSE name[i]]

TmpDir == <<"/", "t", "m", "p", "/">>

RingSuffix == <<".", "r", "i", "n", "g">>

\* const std::string backing_file = "/tmp/" + path_name + ".ring";
BackingFile(name) == TmpDir \o ReplaceSlashes(StripLeadingSlash(name)) \o RingSuffix

\* Each process is about to call Open with a name of its own.
InitName ==
  \E a \in Names, b \in Names :
    /\ file = [exists |-> FALSE, size |-> 0]
    /\ hdr = ZeroHeader
    /\ data = <<>>
    /\ inst = [p \in Procs |-> ClosedInstance]
    /\ held = [p \in Procs |-> [fds |-> 0, maps |-> 0]]
    /\ caller = [p \in Procs |-> [channels |-> 0, capacity_frames |-> 0]]
    /\ pc = [p \in Procs |-> "idle"]
    /\ loc = [p \in Procs |->
               [NoCall EXCEPT !.op = "Open", !.name = IF p = "producer" THEN a ELSE b]]
    /\ pending = <<>>
    /\ budget = MaxCalls
    /\ DriverLoaded

\* Open, past its argument check, makes the backing path from the name.
ResolveName(p) ==
  /\ loc[p].op = "Open"
  /\ loc[p].name # <<>>
  /\ loc[p].path = <<>>
  /\ loc' = [loc EXCEPT ![p].path = BackingFile(loc[p].name)]
  /\ UNCHANGED <<file, hdr, data, inst, held, caller, pc, pending, budget, driverVars>>

NextName == \E p \in Procs : ResolveName(p)

SpecName == InitName /\ [][NextName]_vars

\* The two processes have the ring open when one of them opens it again,
\* with the same or other parameters, while the other is inside Write or Read.
InitRace == \E cfg \in Configs : RingOpenedWith(cfg, MaxCalls)

SpecRace == InitRace /\ [][NextReopen]_vars

\* Two processes that open, use and close the ring one call at a time, with
\* valid and invalid arguments, and with ftruncate(2) and mmap(2) that may
\* fail.
OpenArgs ==
  {<<FALSE, cfg[1], cfg[2]>> : cfg \in Configs}
    \cup {<<TRUE, 1, 3>>, <<FALSE, 0, 3>>, <<FALSE, 1, 0>>}

Quiet == \A q \in Procs : pc[q] = "idle"

\* Channels of the buffers p passes: those it last opened with.
CallerChannels(p) == IF caller[p].channels = 0 THEN 1 ELSE caller[p].channels

LifeFrameCounts == 0..(1 + MaxExtra)

NextLife ==
  \/ \E p \in Procs, create \in BOOLEAN, a \in OpenArgs :
       Quiet /\ OpenBegin(p, a[1], create, a[2], a[3])
  \/ \E p \in Procs, ok \in BOOLEAN : OpenTruncate(p, ok)
  \/ \E p \in Procs, ok \in BOOLEAN : OpenMap(p, ok)
  \/ \E p \in Procs :
       \/ OpenTestMagic(p)
       \/ OpenTestVersion(p)
       \/ OpenTestChannels(p)
       \/ OpenTestCapacity(p)
       \/ OpenMemset(p)
       \/ OpenSetMagic(p)
       \/ OpenSetVersion(p)
       \/ OpenSetChannels(p)
       \/ OpenSetCapacity(p)
       \/ OpenSetWrite(p)
       \/ OpenSetRead(p)
       \/ OpenFinish(p)
  \/ \E p \in Procs : Quiet /\ Close(p)
  \/ \E isNull \in BOOLEAN, n \in LifeFrameCounts :
       \E frames \in FlatBuffers(CallerChannels("producer"), n) :
         Quiet /\ WriteBegin("producer", isNull, n, frames)
  \/ WriteSteps("producer")
  \/ \E isNull \in BOOLEAN, n \in LifeFrameCounts :
       Quiet /\ ReadBegin("consumer", isNull, n)
  \/ ReadSteps("consumer")

SpecLife == Constructed /\ [][NextLife]_vars

\* ------------------------------------------------------------ the driver
\* The entry points of VirtualAudioDriver.cpp that touch the driver's
\* globals and its two rings. The driver process is the "consumer" of the
\* modelled ring (its g_mic_feed_ring); the thread that is inside a ring
\* call stays at its position while the ring's own steps run.
ringVars == <<file, hdr, data, inst, held, caller, pc, loc, pending>>

\* The entry point returns: the thread holds `call` as its result.
Returns(t, call) ==
  /\ tloc' = [tloc EXCEPT ![t] = call]
  /\ tpc' = [tpc EXCEPT ![t] = "idle"]

IsKnownObject(object_id) ==
  object_id \in {kObjectIDPlugIn, kObjectIDDevice, kObjectIDStreamInput,
                 kObjectIDStreamOutput}

\* DriverStartIO up to and including the fetch_add.
DriverStartIO(t, object) ==
  /\ tpc[t] = "idle"
  /\ Spend
  /\ LET call == [NoEntry EXCEPT !.op = "StartIO", !.object = object]
     IN IF object # kObjectIDDevice
        THEN /\ Returns(t, [call EXCEPT !.status = "kAudioHardwareBadObjectError"])
             /\ g_io_client_count' = g_io_client_count
        ELSE /\ g_io_client_count' = Add32(g_io_client_count, 1)
             /\ tloc' = [tloc EXCEPT ![t] = [call EXCEPT !.previous = g_io_client_count]]
             /\ tpc' = [tpc EXCEPT ![t] = "start_anchor"]
  /\ UNCHANGED <<ringVars, g_sample_rate, g_buffer_frame_size, g_clock, g_ring_mutex,
                 g_speaker_tap_ring, ios>>

\* if (previous == 0) { the anchor stores; the seed }; return.
DriverStartIOReturn(t) ==
  /\ tpc[t] = "start_anchor"
  /\ g_clock' = IF tloc[t].previous = 0
                THEN [anchor_host_time |-> 1, seed |-> g_clock.seed + 1]
                ELSE g_clock
  /\ ios' = [ios EXCEPT !.starts = @ + 1]
  /\ Returns(t, [tloc[t] EXCEPT !.status = "kAudioHardwareNoError"])
  /\ UNCHANGED <<ringVars, budget, g_io_client_count, g_sample_rate, g_buffer_frame_size,
                 g_ring_mutex, g_speaker_tap_ring>>

\* DriverStopIO up to and including the load of g_io_client_count.
DriverStopIO(t, object) ==
  /\ tpc[t] = "idle"
  /\ Spend
  /\ LET call == [NoEntry EXCEPT !.op = "StopIO", !.object = object]
     IN IF object # kObjectIDDevice
        THEN Returns(t, [call EXCEPT !.status = "kAudioHardwareBadObjectError"])
        ELSE /\ tloc' = [tloc EXCEPT ![t] = [call EXCEPT !.current = g_io_client_count]]
             /\ tpc' = [tpc EXCEPT ![t] = "stop_test"]
  /\ UNCHANGED <<ringVars, g_io_client_count, g_sample_rate, g_buffer_frame_size, g_clock,
                 g_ring_mutex, g_speaker_tap_ring, ios>>

\* if (current > 0) fetch_sub(1); return.
DriverStopIOReturn(t) ==
  /\ tpc[t] = "stop_test"
  /\ g_io_client_count' = IF tloc[t].current > 0
                          THEN Sub32(g_io_client_count, 1)
                          ELSE g_io_client_count
  /\ ios' = [ios EXCEPT !.stops = @ + 1]
  /\ Returns(t, [tloc[t] EXCEPT !.status = "kAudioHardwareNoError"])
  /\ UNCHANGED <<ringVars, budget, g_sample_rate, g_buffer_frame_size, g_clock,
                 g_ring_mutex, g_speaker_tap_ring>>

\* kAudioDevicePropertyDeviceIsRunning as DriverGetPropertyData computes it.
DeviceIsRunning == IF g_io_client_count > 0 THEN 1 ELSE 0

\* DriverGetPropertyData for kAudioDevicePropertyDeviceIsRunning on the device.
DriverGetPropertyData(t) ==
  /\ tpc[t] = "idle"
  /\ Spend
  /\ Returns(t, [NoEntry EXCEPT !.op = "GetPropertyData", !.object = kObjectIDDevice,
                                !.selector = "DeviceIsRunning",
                                !.out = DeviceIsRunning,
                                !.status = "kAudioHardwareNoError"])
  /\ UNCHANGED <<ringVars, g_io_client_count, g_sample_rate, g_buffer_frame_size, g_clock,
                 g_ring_mutex, g_speaker_tap_ring, ios>>

\* A DriverSetPropertyData request: which pointers are null, the object,
\* the selector, whether in_data_size is large enough for the property's
\* type, and the value (for a stream format: its rate, channels, format).
Request(address_null, data_null, object, selector, size_ok, value, channels, lpcm) ==
  [address_null |-> address_null, data_null |-> data_null, object |-> object,
   selector |-> selector, size_ok |-> size_ok, value |-> value,
   channels |-> channels, lpcm |-> lpcm]

FrameSizesTried ==
  {0, MinBufferFrameSize - 1, MinBufferFrameSize, MaxBufferFrameSize,
   MaxBufferFrameSize + 1}

RatesTried == {0, 44100}

SetRequests ==
  {Request(FALSE, FALSE, kObjectIDDevice, "BufferFrameSize", TRUE, v, 0, FALSE) :
     v \in FrameSizesTried}
  \cup {Request(FALSE, FALSE, kObjectIDDevice, "NominalSampleRate", TRUE, v, 0, FALSE) :
     v \in RatesTried}
  \cup {Request(FALSE, FALSE, kObjectIDStreamInput, "VirtualFormat", TRUE, v, ch, TRUE) :
     v \in RatesTried, ch \in {1, kChannelCount}}
  \cup {Request(FALSE, FALSE, kObjectIDDevice, "BufferFrameSize", FALSE, MinBufferFrameSize,
                0, FALSE),
        Request(FALSE, FALSE, kObjectIDDevice, "NominalSampleRate", FALSE, 44100, 0, FALSE),
        Request(FALSE, FALSE, kObjectIDStreamOutput, "PhysicalFormat", FALSE, 44100,
                kChannelCount, TRUE),
        Request(FALSE, FALSE, kObjectIDStreamOutput, "PhysicalFormat", TRUE, 44100,
                kChannelCount, FALSE),
        Request(FALSE, FALSE, UnknownObjectID, "BufferFrameSize", TRUE, MinBufferFrameSize,
                0, FALSE),
        Request(FALSE, FALSE, kObjectIDDevice, "Latency", TRUE, MinBufferFrameSize, 0, FALSE),
        Request(FALSE, FALSE, kObjectIDPlugIn, "BufferFrameSize", TRUE, MinBufferFrameSize,
                0, FALSE),
        Request(TRUE, FALSE, kObjectIDDevice, "BufferFrameSize", TRUE, MinBufferFrameSize,
                0, FALSE),
        Request(FALSE, TRUE, kObjectIDDevice, "NominalSampleRate", TRUE, 44100, 0, FALSE)}

FrameSizeOutOfRangeAboveOnly(requested_frames) == requested_frames > MaxBufferFrameSize

\* if (requested_frames < 64 || requested_frames > 4096)
FrameSizeOutOfRange(requested_frames) ==
  requested_frames < MinBufferFrameSize \/ requested_frames > MaxBufferFrameSize

IsStreamFormat(r) ==
  /\ r.object \in {kObjectIDStreamInput, kObjectIDStreamOutput}
  /\ r.selector \in {"VirtualFormat", "PhysicalFormat"}

\* The OSStatus DriverSetPropertyData returns for request r.
SetStatus(r) ==
  IF r.address_null \/ r.data_null THEN "kAudioHardwareIllegalOperationError"
  ELSE IF ~IsKnownObject(r.object) THEN "kAudioHardwareBadObjectError"
  ELSE IF r.object = kObjectIDDevice /\ r.selector = "NominalSampleRate"
  THEN IF ~r.size_ok THEN "kAudioHardwareBadPropertySizeError"
       ELSE IF r.value <= 0 THEN "kAudioHardwareIllegalOperationError"
       ELSE "kAudioHardwareNoError"
  ELSE IF r.object = kObjectIDDevice /\ r.selector = "BufferFrameSize"
  THEN IF ~r.size_ok THEN "kAudioHardwareBadPropertySizeError"
       ELSE IF FrameSizeOutOfRange(r.value) THEN "kAudioHardwareIllegalOperationError"
       ELSE "kAudioHardwareNoError"
  ELSE IF IsStreamFormat(r)
  THEN IF ~r.size_ok THEN "kAudioHardwareBadPropertySizeError"
       ELSE IF r.value <= 0 \/ r.channels # kChannelCount \/ ~r.lpcm
       THEN "kAudioHardwareIllegalOperationError"
       ELSE "kAudioHardwareNoError"
  ELSE "kAudioHardwareUnsupportedOperationError"

\* DriverSetPropertyData: the stores are made on the paths that return
\* kAudioHardwareNoError.
DriverSetPropertyData(t, r) ==
  /\ tpc[t] = "idle"
  /\ Spend
  /\ LET status == SetStatus(r)
         stored == status = "kAudioHardwareNoError"
     IN /\ g_sample_rate' =
             IF stored /\ (r.selector = "NominalSampleRate" \/ IsStreamFormat(r))
             THEN r.value ELSE g_sample_rate
        /\ g_buffer_frame_size' =
             IF stored /\ r.selector = "BufferFrameSize"
             THEN r.value ELSE g_buffer_frame_size
        /\ Returns(t, [NoEntry EXCEPT !.op = "SetPropertyData", !.object = r.object,
                                      !.selector = r.selector, !.size_ok = r.size_ok,
                                      !.value = r.value, !.channels = r.channels,
                                      !.lpcm = r.lpcm,
                                      !.null = r.address_null \/ r.data_null,
                                      !.status = status])
  /\ UNCHANGED <<ringVars, g_io_client_count, g_clock, g_ring_mutex, g_speaker_tap_ring, ios>>

\* Elapsed samples since the anchor that DriverGetZeroTimeStamp may compute.
ElapsedTried == {0, MaxBufferFrameSize + 1}

\* DriverGetZeroTimeStamp: the anchor is set if it was 0; the elapsed
\* samples are divided by the buffer frame size (an integer division, whose
\* divisor must not be 0) and multiplied back.
DriverGetZeroTimeStamp(t, object, out_null, elapsed_samples) ==
  /\ tpc[t] = "idle"
  /\ Spend
  /\ LET call == [NoEntry EXCEPT !.op = "GetZeroTimeStamp", !.object = object,
                                 !.null = out_null, !.value = elapsed_samples]
     IN IF object # kObjectIDDevice
        THEN /\ Returns(t, [call EXCEPT !.status = "kAudioHardwareBadObjectError"])
             /\ g_clock' = g_clock
        ELSE IF out_null
        THEN /\ Returns(t, [call EXCEPT !.status = "kAudioHardwareIllegalOperationError"])
             /\ g_clock' = g_clock
        ELSE /\ g_clock' = IF g_clock.anchor_host_time = 0
                           THEN [g_clock EXCEPT !.anchor_host_time = 1]
                           ELSE g_clock
             /\ IF g_buffer_frame_size = 0
                THEN /\ tloc' = [tloc EXCEPT ![t] = call]
                     /\ tpc' = [tpc EXCEPT ![t] = "fault"]
                ELSE Returns(t, [call EXCEPT
                       !.out = (elapsed_samples \div g_buffer_frame_size)
                                 * g_buffer_frame_size,
                       !.status = "kAudioHardwareNoError"])
  /\ UNCHANGED <<ringVars, g_io_client_count, g_sample_rate, g_buffer_frame_size,
                 g_ring_mutex, g_speaker_tap_ring, ios>>

\* The host's threads calling the control entry points, in any interleaving.
NextControl ==
  \/ \E t \in Threads, object \in {kObjectIDDevice, UnknownObjectID} :
       DriverStartIO(t, object)
  \/ \E t \in Threads : DriverStartIOReturn(t)
  \/ \E t \in Threads, object \in {kObjectIDDevice, UnknownObjectID} :
       DriverStopIO(t, object)
  \/ \E t \in Threads : DriverStopIOReturn(t)
  \/ \E t \in Threads : DriverGetPropertyData(t)
  \/ \E t \in Threads, r \in SetRequests : DriverSetPropertyData(t, r)
  \/ \E t \in Threads, object \in {kObjectIDDevice, UnknownObjectID},
        out_null \in BOOLEAN, elapsed_samples \in ElapsedTried :
       DriverGetZeroTimeStamp(t, object, out_null, elapsed_samples)

SpecControl == Constructed /\ [][NextControl]_vars

\* ---- the IO path: DriverInitialize and DriverDoIOOperation
CanLockAlways == TRUE

\* std::lock_guard<std::mutex> lock(g_ring_mutex) can be entered.
CanLock == g_ring_mutex = "free"

\* The lock_guard is entered by t; the locals of the driver's previous ring
\* call are dead.
Locks(t) ==
  /\ CanLock
  /\ g_ring_mutex' = t
  /\ loc' = [loc EXCEPT !["consumer"] = NoCall]

\* DriverInitialize, up to the lock_guard.
DriverInitialize(t) ==
  /\ tpc[t] = "idle"
  /\ tloc' = [tloc EXCEPT ![t] = [NoEntry EXCEPT !.op = "Initialize"]]
  /\ tpc' = [tpc EXCEPT ![t] = "init_lock"]
  /\ UNCHANGED <<ringVars, budget, g_io_client_count, g_sample_rate, g_buffer_frame_size,
                 g_clock, g_ring_mutex, g_speaker_tap_ring, ios>>

DriverInitializeLock(t) ==
  /\ tpc[t] = "init_lock"
  /\ Locks(t)
  /\ tpc' = [tpc EXCEPT ![t] = "init_mic"]
  /\ UNCHANGED <<file, hdr, data, inst, held, caller, pc, pending, budget,
                 g_io_client_count, g_sample_rate, g_buffer_frame_size, g_clock,
                 g_speaker_tap_ring, tloc, ios>>

\* A driver thread is at its call of `op` on g_mic_feed_ring and has not
\* made it yet.
AtRingCall(position) ==
  /\ \E t \in Threads : tpc[t] = position
  /\ loc["consumer"].op = "none"

\* (void)g_mic_feed_ring.Open(kMicFeedRingName, true, kChannelCount, 48000);
DriverOpensMicFeed ==
  /\ AtRingCall("init_mic")
  /\ OpenBegin("consumer", FALSE, TRUE, kChannelCount, kRingCapacityFrames)

\* (void)g_speaker_tap_ring.Open(kSpeakerTapRingName, true, kChannelCount,
\* 48000), which succeeds iff `ok`, once the Open of g_mic_feed_ring returned.
DriverOpensSpeakerTap(t, ok) ==
  /\ tpc[t] = "init_mic"
  /\ pc["consumer"] = "idle"
  /\ loc["consumer"].op = "Open"
  /\ g_speaker_tap_ring' = [open |-> ok]
  /\ tpc' = [tpc EXCEPT ![t] = "init_return"]
  /\ UNCHANGED <<ringVars, budget, g_io_client_count, g_sample_rate, g_buffer_frame_size,
                 g_clock, g_ring_mutex, tloc, ios>>

\* return kAudioHardwareNoError; the lock_guard is left. The io buffer is
\* the host's from here on.
DriverUnlockReturn(t) ==
  /\ tpc[t] \in {"init_return", "io_return"}
  /\ g_ring_mutex' = "free"
  /\ Returns(t, [NoEntry EXCEPT !.op = tloc[t].op, !.object = tloc[t].object,
                                !.operation = tloc[t].operation,
                                !.status = "kAudioHardwareNoError"])
  /\ UNCHANGED <<ringVars, budget, g_io_client_count, g_sample_rate, g_buffer_frame_size,
                 g_clock, g_speaker_tap_ring, ios>>

\* in_io_buffer_frame_size values the host passes.
IoFrameSizes == 0..(1 + MaxExtra)

\* DriverDoIOOperation calls the host makes: <<object, operation, is the
\* buffer null, frame size>>.
IoRequests ==
  {<<kObjectIDDevice, "ReadInput", FALSE, n>> : n \in IoFrameSizes}
  \cup {<<kObjectIDDevice, "WriteMix", FALSE, 1>>,
        <<UnknownObjectID, "ReadInput", FALSE, 1>>,
        <<kObjectIDDevice, "ProcessOutput", FALSE, 1>>,
        <<kObjectIDDevice, "ReadInput", TRUE, 1>>}

\* DriverDoIOOperation, up to the lock_guard: the three argument checks.
DriverDoIOOperation(t, object, operation, null, frame_size) ==
  /\ tpc[t] = "idle"
  /\ LET call == [NoEntry EXCEPT !.op = "DoIOOperation", !.object = object,
                                 !.operation = operation, !.null = null,
                                 !.frame_size = frame_size,
                                 !.io = IF null THEN <<>>
                                        ELSE BlankBuffer(kChannelCount, frame_size)]
     IN IF object # kObjectIDDevice
        THEN Returns(t, [call EXCEPT !.status = "kAudioHardwareBadObjectError"])
        ELSE IF operation \notin {"ReadInput", "WriteMix"}
        THEN Returns(t, [call EXCEPT !.status = "kAudioHardwareUnsupportedOperationError"])
        ELSE IF null
        THEN Returns(t, [call EXCEPT !.status = "kAudioHardwareIllegalOperationError"])
        ELSE /\ tloc' = [tloc EXCEPT ![t] = call]
             /\ tpc' = [tpc EXCEPT ![t] = "io_lock"]
  /\ UNCHANGED <<ringVars, budget, g_io_client_count, g_sample_rate, g_buffer_frame_size,
                 g_clock, g_ring_mutex, g_speaker_tap_ring, ios>>

DriverDoIOLock(t) ==
  /\ tpc[t] = "io_lock"
  /\ Locks(t)
  /\ tpc' = [tpc EXCEPT ![t] = IF tloc[t].operation = "ReadInput"
                               THEN "io_read" ELSE "io_write"]
  /\ UNCHANGED <<file, hdr, data, inst, held, caller, pc, pending, budget,
                 g_io_client_count, g_sample_rate, g_buffer_frame_size, g_clock,
                 g_speaker_tap_ring, tloc, ios>>

\* const size_t got = g_mic_feed_ring.Read(frames, frame_count);
DriverReadsMicFeed ==
  /\ AtRingCall("io_read")
  /\ \E t \in Threads :
       /\ tpc[t] = "io_read"
       /\ ReadBegin("consumer", FALSE, tloc[t].frame_size)

\* The io buffer, in which Read left `buf`, after
\*   if (got < frame_count)
\*     memset(frames + got * kChannelCount, 0,
\*            sizeof(float) * (frame_count - got) * kChannelCount);
ZeroFilled(buf, got, frame_count) ==
  [k \in 1..(frame_count * kChannelCount) |->
     IF got < frame_count /\ k > got * kChannelCount
     THEN 0
     ELSE IF k <= Len(buf) THEN buf[k] ELSE Poison]

\* Read has returned `got`; the zero-fill of the rest of the io buffer.
DriverZeroFills(t) ==
  /\ tpc[t] = "io_read"
  /\ pc["consumer"] = "idle"
  /\ loc["consumer"].op = "Read"
  /\ LET got == loc["consumer"].ret
     IN tloc' = [tloc EXCEPT ![t].got = got,
                             ![t].read_buf = loc["consumer"].buf,
                             ![t].io = ZeroFilled(loc["consumer"].buf, got,
                                                  tloc[t].frame_size)]
  /\ tpc' = [tpc EXCEPT ![t] = "io_return"]
  /\ UNCHANGED <<ringVars, budget, g_io_client_count, g_sample_rate, g_buffer_frame_size,
                 g_clock, g_ring_mutex, g_speaker_tap_ring, ios>>

\* (void)g_speaker_tap_ring.Write(frames, frame_count); the frames that
\* ring holds are not kept here, only that the thread was inside the call.
DriverWritesSpeakerTap(t) ==
  /\ tpc[t] = "io_write"
  /\ tpc' = [tpc EXCEPT ![t] = "io_return"]
  /\ UNCHANGED <<ringVars, budget, g_io_client_count, g_sample_rate, g_buffer_frame_size,
                 g_clock, g_ring_mutex, g_speaker_tap_ring, tloc, ios>>

\* The host calls DriverInitialize once, as the first call of one thread.
HostLoadsDriver(t) == t = "t1" /\ tloc[t].op = "none"

\* The steps inside DriverInitialize and DriverDoIOOperation, by any thread,
\* with the steps of the ring calls they make.
DriverSteps ==
  \/ \E t \in Threads : DriverInitializeLock(t)
  \/ DriverOpensMicFeed
  \/ OpenSteps("consumer")
  \/ OpenTruncate("consumer", FALSE)
  \/ \E t \in Threads, ok \in BOOLEAN : DriverOpensSpeakerTap(t, ok)
  \/ \E t \in Threads : DriverUnlockReturn(t)
  \/ \E t \in Threads : DriverDoIOLock(t)
  \/ DriverReadsMicFeed
  \/ ReadSteps("consumer")
  \/ \E t \in Threads : DriverZeroFills(t)
  \/ \E t \in Threads : DriverWritesSpeakerTap(t)

\* One IO thread beside the thread that initialises the driver; the process
\* at the other end of the mic-feed ring (the "producer") attaches to the
\* ring with the driver's parameters, at any time, and writes to it.
NextUnderrun ==
  \/ \E t \in Threads : HostLoadsDriver(t) /\ DriverInitialize(t)
  \/ \E r \in IoRequests : DriverDoIOOperation("t2", r[1], r[2], r[3], r[4])
  \/ DriverSteps
  \/ OpenBegin("producer", FALSE, FALSE, kChannelCount, kRingCapacityFrames)
  \/ OpenSteps("producer")
  \/ \E n \in 1..(1 + MaxExtra) :
       \E frames \in FlatBuffers(kChannelCount, n) : WriteBegin("producer", FALSE, n, frames)
  \/ WriteSteps("producer")

SpecUnderrun == Constructed /\ [][NextUnderrun]_vars

\* Several IO clients: every thread calls DriverDoIOOperation, for input and
\* for output, while one of them first initialises the driver and the
\* process at the other end of the mic-feed ring writes single frames.
NextDriver ==
  \/ \E t \in Threads : HostLoadsDriver(t) /\ DriverInitialize(t)
  \/ \E t \in Threads, operation \in {"ReadInput", "WriteMix"} :
       DriverDoIOOperation(t, kObjectIDDevice, operation, FALSE, 1)
  \/ DriverSteps
  \/ OpenBegin("producer", FALSE, FALSE, kChannelCount, kRingCapacityFrames)
  \/ OpenSteps("producer")
  \/ \E frames \in FlatBuffers(kChannelCount, 1) : WriteBegin("producer", FALSE, 1, frames)
  \/ WriteSteps("producer")

SpecDriver == Constructed /\ [][NextDriver]_vars

\* ---------------------------------------------------------------- claims
\* write_index - read_index as the header holds them now, modulo 2^IndexBits.
UsedNow == Sub32(hdr.write_index, hdr.read_index)

Writing(p) == pc[p] \in {"w_check", "w_copy", "w_store"}

Reading(p) == pc[p] \in {"r_check", "r_copy", "r_store"}

\* C1: with one writer and one reader and no reset, in every state reached
\* by any interleaving of the steps of Write and Read, write_index -
\* read_index modulo 2^IndexBits lies in [0, capacity_frames].
C1_UsedWithinCapacity == UsedNow \in 0..hdr.capacity_frames

\* The ring is full across the index wrap while both calls are in flight.
C1_Witness ==
  /\ UsedNow = hdr.capacity_frames
  /\ hdr.write_index < hdr.read_index
  /\ pc["producer"] = "w_load_read"
  /\ pc["consumer"] = "r_copy"

\* The frames the consumer has copied so far are the oldest accepted frames
\* not yet returned, and the frames a Read returned are those it consumed.
ReadReturnsAccepted(p) ==
  /\ pc[p] \in {"r_copy", "r_store"} =>
       /\ loc[p].frame <= Len(pending)
       /\ FramesOf(loc[p].buf, loc[p].frame, loc[p].channels)
            = SubSeq(pending, 1, loc[p].frame)
  /\ (pc[p] = "idle" /\ loc[p].op = "Read") =>
       /\ Len(loc[p].expect) = loc[p].ret
       /\ FramesOf(loc[p].buf, loc[p].ret, caller[p].channels) = loc[p].expect

\* C2: with one writer and one reader, the frames returned by Read are
\* always a prefix of the frames accepted by Write, in order and with the
\* same sample values (nothing lost, duplicated, reordered or torn).
C2_ReadsArePrefixOfWrites == ReadReturnsAccepted("consumer")

\* C3: from an empty ring at any index value, Write of N <= capacity_frames
\* frames returns N, and a Read of N frames right after it returns N and
\* the original samples of every frame, in order.
C3_RoundTrip ==
  /\ \A p \in Procs :
       (pc[p] = "idle" /\ loc[p].op = "Write" /\ loc[p].fromEmpty
          /\ loc[p].frame_count <= hdr.capacity_frames)
         => loc[p].ret = loc[p].frame_count
  /\ \A p \in Procs :
       (pc[p] = "idle" /\ loc[p].op = "Read" /\ loc[p].roundTrip)
         => /\ loc[p].ret = loc[p].frame_count
            /\ FramesOf(loc[p].buf, loc[p].frame_count, caller[p].channels) = loc[p].orig

\* Slots of the frames that are accepted and unread, and of the frames the
\* Write in flight in p has copied so far.
UnreadSlots == {FrameSlot(hdr.read_index, j, hdr.capacity_frames) : j \in 0..(Len(pending) - 1)}

CopiedSlots(p) == {FrameSlot(loc[p].write, j, loc[p].capacity) : j \in 0..(loc[p].frame - 1)}

\* C4: when the indices pass the 2^IndexBits boundary, for every capacity
\* (also one that does not divide 2^IndexBits) the frame after the one in
\* slot s goes to slot (s + 1) mod capacity_frames, no unread frame is
\* overwritten, and the frames are read back unchanged and in order.
C4_WrapAddressing ==
  /\ \A p \in Procs :
       (pc[p] = "w_copy" /\ loc[p].frame > 0) =>
         LET next == FrameSlot(loc[p].write, loc[p].frame, loc[p].capacity)
         IN /\ next = (loc[p].slot + 1) % loc[p].capacity
            /\ next \notin UnreadSlots
            /\ next \notin CopiedSlots(p)
  /\ ReadReturnsAccepted("consumer")

\* C5: when write_index has wrapped and read_index has not (write_index is
\* numerically smaller), the used count Write computes and the available
\* count Read computes equal the number of frames truly buffered when the
\* call loaded the peer's index, and free is capacity_frames minus it.
C5_UsedAcrossWrap ==
  \A p \in Procs :
    /\ (Writing(p) /\ loc[p].write < loc[p].read) =>
         /\ loc[p].used = loc[p].usedAtLoad
         /\ loc[p].free = hdr.capacity_frames - loc[p].usedAtLoad
    /\ (Reading(p) /\ loc[p].write < loc[p].read) =>
         loc[p].used = loc[p].usedAtLoad

\* Both calls have computed their counts from a wrapped write_index, the
\* producer on a full ring.
C5_Witness ==
  /\ pc["producer"] = "w_check"
  /\ loc["producer"].write < loc["producer"].read
  /\ loc["producer"].used = hdr.capacity_frames
  /\ pc["consumer"] = "r_check"
  /\ loc["consumer"].write < loc["consumer"].read
  /\ loc["consumer"].used > 0

\* C6: every slot Write stores to or Read loads from is in
\* [0, capacity_frames), and every sample offset accessed is in
\* [0, capacity_frames * channels), for every frame_count and index value.
C6_SlotsInsideBuffer ==
  \A p \in Procs :
    /\ pc[p] # "fault"
    /\ loc[p].acc # <<>> =>
         /\ loc[p].slot \in 0..(hdr.capacity_frames - 1)
         /\ loc[p].acc[1] >= 0
         /\ loc[p].acc[2] <= hdr.capacity_frames * hdr.channels - 1

\* A Write asked for more than the capacity, from an index that wraps within
\* the call, has just stored the last sample of a two-channel buffer.
C6_Witness ==
  /\ pc["producer"] \in {"w_copy", "w_store"}
  /\ loc["producer"].frame_count > hdr.capacity_frames
  /\ loc["producer"].acc # <<>>
  /\ loc["producer"].acc[2] = hdr.capacity_frames * hdr.channels - 1
  /\ loc["producer"].write + loc["producer"].n > IndexModulus
  /\ hdr.channels > 1
  /\ pc["consumer"] = "r_check"

\* C7: every byte a Write or Read of process p touches in the shared region
\* lies inside p's own mapping, of the size p computed at its own Open, also
\* after another process has opened the same name with other channels or
\* capacity_frames, rewritten the header and resized the backing object
\* (stated for the accesses made while no other process is inside a call,
\* so that no reset is in progress).
C7_AccessesInsideOwnMapping ==
  \A p \in Procs :
    (/\ loc[p].op \in {"Write", "Read"}
     /\ loc[p].acc # <<>>
     /\ \A q \in Procs \ {p} : pc[q] = "idle")
      => HeaderSize + SampleSize * (loc[p].acc[2] + 1) <= inst[p].mapping_size

\* C8: the count Write returns never exceeds capacity_frames - (write_index
\* - read_index) and the count Read returns never exceeds (write_index -
\* read_index), for the indices the call loaded and, with one writer and
\* one reader, for the indices in the header up to its own index store.
C8_TransferWithinBounds ==
  \A p \in Procs :
    /\ Writing(p) =>
         /\ loc[p].n <= loc[p].capacity - Sub32(loc[p].write, loc[p].read)
         /\ loc[p].n <= hdr.capacity_frames - UsedNow
    /\ Reading(p) =>
         /\ loc[p].n <= Sub32(loc[p].write, loc[p].read)
         /\ loc[p].n <= UsedNow

\* Both calls are about to publish a count clamped below what was asked.
C8_Witness ==
  /\ pc["producer"] = "w_store"
  /\ loc["producer"].n < loc["producer"].frame_count
  /\ loc["producer"].n = hdr.capacity_frames - Sub32(loc["producer"].write, loc["producer"].read)
  /\ pc["consumer"] = "r_store"
  /\ loc["consumer"].n < loc["consumer"].frame_count

\* A Write that found the ring empty and was asked for capacity_frames or
\* more takes exactly capacity_frames.
OverrunTakesCapacity(p) ==
  (loc[p].op = "Write" /\ loc[p].fromEmpty /\ loc[p].frame_count >= hdr.capacity_frames) =>
    /\ Writing(p) => loc[p].n = hdr.capacity_frames
    /\ pc[p] = "idle" => loc[p].ret = hdr.capacity_frames

\* A Write that found the ring full takes nothing.
FullTakesNothing(p) ==
  (pc[p] = "w_check" /\ loc[p].usedAtLoad = hdr.capacity_frames) => loc[p].n = 0

\* The index store of such an overrunning Write leaves the ring full.
OverrunFillsRing(p) ==
  (pc[p] = "w_store" /\ loc[p].fromEmpty /\ loc[p].frame_count >= hdr.capacity_frames
     /\ pc'[p] = "idle")
    => (UsedNow' = hdr.capacity_frames /\ Len(pending') = hdr.capacity_frames)

\* C9: on an empty ring one Write of capacity_frames + K frames (K >= 0)
\* returns exactly capacity_frames; after it the ring is full (write_index -
\* read_index = capacity_frames), and a Write that finds it full returns 0.
C9_Overrun ==
  /\ [](OverrunTakesCapacity("producer") /\ FullTakesNothing("producer"))
  /\ [][OverrunFillsRing("producer")]_vars

\* An overrunning Write (K > 0) into an empty ring has returned, the ring is
\* full, and the next Write has found it full.
C9_Witness ==
  /\ UsedNow = hdr.capacity_frames
  /\ pc["producer"] = "w_check"
  /\ loc["producer"].usedAtLoad = hdr.capacity_frames
  /\ loc["producer"].frame_count > hdr.capacity_frames

\* Read returns min(frame_count, frames buffered when it loaded write_index):
\* 0 on an empty ring, all of them when asked for more.
UnderrunTakesAvailable(p) ==
  Reading(p) => loc[p].n = MinU32(loc[p].frame_count, loc[p].usedAtLoad)

\* C10 as claimed: a Read asked for more than is buffered leaves the ring
\* empty.
C10_UnderrunLeavesRingEmpty ==
  [][(pc["consumer"] = "r_store" /\ pc'["consumer"] = "idle"
        /\ loc["consumer"].frame_count > loc["consumer"].usedAtLoad)
       => UsedNow' = 0]_vars

\* C10, amended: Read on an empty ring returns 0; Read asked for more than
\* is buffered returns exactly the number of frames buffered when it loaded
\* write_index, and leaves the ring empty unless a Write published frames
\* after that load: read_index becomes the write_index value Read loaded.
C10_Underrun ==
  /\ [](UnderrunTakesAvailable("consumer"))
  /\ [][(pc["consumer"] = "r_store" /\ pc'["consumer"] = "idle"
           /\ loc["consumer"].frame_count > loc["consumer"].usedAtLoad)
          => /\ hdr'.read_index = loc["consumer"].write
             /\ (hdr.write_index = loc["consumer"].write => UsedNow' = 0)
             /\ loc'["consumer"].ret = loc["consumer"].usedAtLoad]_vars

\* A Read asked for more than was buffered has returned fewer frames than
\* asked, and more than none.
C10_Witness ==
  /\ pc["consumer"] = "idle"
  /\ loc["consumer"].op = "Read"
  /\ loc["consumer"].ret > 0
  /\ loc["consumer"].ret < loc["consumer"].frame_count
  /\ UsedNow = 0

\* A step of an Open with create = false on an existing ring whose header
\* and size match the request changes neither the header nor any sample.
AttachPreserves(p) ==
  (/\ OpenCall(p)
   /\ ~loc'[p].create
   /\ file.exists
   /\ file.size = MappingSize(loc'[p].arg_channels, loc'[p].arg_capacity)
   /\ HeaderMatches(loc'[p].arg_channels, loc'[p].arg_capacity))
    => (hdr' = hdr /\ data' = data /\ pending' = pending /\ pc'[p] # "o_memset")

\* The Read that follows such an Open returns the unread frames, in order.
ReadAfterAttach(p) ==
  /\ (Reading(p) /\ loc[p].afterAttach) =>
       loc[p].n = MinU32(loc[p].frame_count, loc[p].usedAtLoad)
  /\ (pc[p] = "idle" /\ loc[p].op = "Read" /\ loc[p].afterAttach /\ ~loc[p].null) =>
       /\ Len(loc[p].expect) = loc[p].ret
       /\ FramesOf(loc[p].buf, loc[p].ret, caller[p].channels) = loc[p].expect

ResetRan(p) == loc[p].op = "Open" /\ ~loc[p].kept

\* The ring as InitializeIfNeeded's reset leaves it for the request.
FreshRing(channels, capacity_frames) ==
  /\ hdr.magic = kMagic
  /\ hdr.version = kVersion
  /\ hdr.channels = channels
  /\ hdr.capacity_frames = capacity_frames
  /\ hdr.write_index = 0
  /\ hdr.read_index = 0
  /\ Len(data) = channels * capacity_frames
  /\ \A k \in 1..Len(data) : data[k] = 0

\* An Open that reaches its end without a reset was asked with create =
\* false and found all four header fields equal to the request.
ResetWhenAsked(p) ==
  (pc[p] = "o_name" /\ loc[p].kept) =>
    (~loc[p].create /\ HeaderMatches(loc[p].arg_channels, loc[p].arg_capacity))

\* Until the reset, the steps of an Open leave the header as they found it.
HeaderStableUntilReset(p) == (OpenCall(p) /\ loc'[p].kept) => hdr' = hdr

\* An Open that ran the reset returns from a freshly initialised, empty ring.
ResetLeavesFresh(p) ==
  (OpenFinish(p) /\ ResetRan(p))
    => /\ FreshRing(loc[p].arg_channels, loc[p].arg_capacity)'
       /\ pending' = <<>>
       /\ loc'[p].ok

\* Read takes no more frames than Write has published since the last reset.
ReadsOnlyPublished(p) ==
  /\ Reading(p) => loc[p].n <= Len(pending)
  /\ (Reading(p) /\ pending = <<>>) => loc[p].n = 0

\* C12: a successful Open with create = true, or with a stored magic,
\* version, channels or capacity_frames that differs from the request,
\* leaves every sample zero, magic and version the fixed constants, channels
\* and capacity_frames as requested and both indices 0, and Read returns 0
\* until the next Write.
C12_ResetLeavesFreshRing ==
  /\ [](\A p \in Procs : ResetWhenAsked(p) /\ ReadsOnlyPublished(p))
  /\ [][\A p \in Procs : HeaderStableUntilReset(p) /\ ResetLeavesFresh(p)]_vars

\* The producer's frames were in the ring, the consumer's Open with create =
\* false and other parameters has reset it, and the Read after it found
\* nothing.
C12_Witness ==
  /\ pc["producer"] = "idle"
  /\ loc["producer"].op = "Write"
  /\ loc["producer"].ret > 0
  /\ pc["consumer"] = "r_check"
  /\ loc["consumer"].n = 0
  /\ FreshRing(caller["consumer"].channels, caller["consumer"].capacity_frames)
  /\ caller["consumer"] # caller["producer"]

\* The members of p are those of an unopened instance, and the kernel holds
\* no descriptor and no mapping for it.
Unopened(p) ==
  /\ inst[p].shm_fd = 0 - 1
  /\ ~inst[p].mapping
  /\ inst[p].mapping_size = 0
  /\ ~inst[p].header
  /\ inst[p].name = ""
  /\ held[p].fds = 0
  /\ held[p].maps = 0

BadArgs(l) == l.emptyName \/ l.arg_channels = 0 \/ l.arg_capacity = 0

\* C13: Open with an empty name, channels = 0 or capacity_frames = 0
\* returns false and leaves the instance unopened: is_open() is false,
\* channels() and capacity_frames() return 0, no descriptor or mapping held.
C13_InvalidOpenLeavesUnopened ==
  \A p \in Procs :
    /\ (loc[p].op = "Open" /\ BadArgs(loc[p])) => pc[p] = "idle"
    /\ (pc[p] = "idle" /\ loc[p].op = "Open" /\ BadArgs(loc[p])) =>
         /\ ~loc[p].ok
         /\ ~IsOpen(p)
         /\ Channels(p) = 0
         /\ CapacityFrames(p) = 0
         /\ Unopened(p)

\* Each kind of invalid request has been refused, on a ring the other
\* process has open.
C13_Witness ==
  /\ loc["producer"].op = "Open"
  /\ loc["producer"].arg_channels = 0
  /\ ~loc["producer"].ok
  /\ loc["consumer"].op = "Open"
  /\ loc["consumer"].emptyName
  /\ ~loc["consumer"].ok
  /\ file.exists

\* C14: Open with an empty name, channels = 0 or capacity_frames = 0 has no
\* side effects: the instance it is called on (also one that has a ring
\* open) and the backing object are as they were before the call.
C14_InvalidOpenHasNoEffect ==
  [][\A p \in Procs :
       (\E a \in OpenArgs, create \in BOOLEAN :
          /\ a[1] \/ a[2] = 0 \/ a[3] = 0
          /\ OpenBegin(p, a[1], create, a[2], a[3]))
         => (inst' = inst /\ held' = held /\ file' = file /\ hdr' = hdr /\ data' = data)]_vars

\* C15: whenever Open returns false, whichever step failed, the instance is
\* unopened and holds nothing: descriptor -1, mapping null, mapping size 0,
\* header pointer null, name empty, is_open() false.
C15_FailedOpenHoldsNothing ==
  \A p \in Procs :
    (pc[p] = "idle" /\ loc[p].op = "Open" /\ ~loc[p].ok) => (Unopened(p) /\ ~IsOpen(p))

\* One Open failed at open(2), on a ring that does not exist, and one failed
\* after ftruncate(2) had sized the backing object.
C15_Witness ==
  \E p \in Procs :
    \E q \in Procs \ {p} :
      /\ pc[p] = "idle" /\ loc[p].op = "Open" /\ ~loc[p].ok /\ ~BadArgs(loc[p])
      /\ file.size = MappingSize(loc[p].arg_channels, loc[p].arg_capacity)
      /\ ~HeaderMatches(loc[p].arg_channels, loc[p].arg_capacity)
      /\ pc[q] = "idle" /\ loc[q].op = "Open" /\ ~loc[q].ok /\ ~BadArgs(loc[q])
      /\ ~loc[q].create

\* After Close the instance is unopened.
ClosedIsUnopened(p) == (pc[p] = "idle" /\ loc[p].op = "Close") => Unopened(p)

\* The kernel never holds more than one descriptor and one mapping for an
\* instance, and is never asked to release one it does not hold.
ReleasesOnce(p) == held[p].fds \in {0, 1} /\ held[p].maps \in {0, 1}

\* Close leaves the shared region as it is, and an unopened instance as it is.
CloseChangesNothingElse(p) ==
  Close(p) =>
    /\ hdr' = hdr /\ data' = data /\ file' = file
    /\ Unopened(p) => (inst' = inst /\ held' = held)

\* C16: after Close the instance is unopened; a second Close, or a Close on
\* a never-opened instance, changes nothing and releases nothing again;
\* Close never modifies the shared header or frame buffer.
C16_CloseIdempotent ==
  /\ [](\A p \in Procs : ClosedIsUnopened(p) /\ ReleasesOnce(p))
  /\ [][\A p \in Procs : CloseChangesNothingElse(p)]_vars

\* The producer closed a ring that holds frames; the consumer, never opened,
\* was closed as well.
C16_Witness ==
  /\ loc["producer"].op = "Close"
  /\ loc["consumer"].op = "Close"
  /\ caller["consumer"].channels = 0
  /\ hdr.write_index > 0
  /\ \E k \in 1..Len(data) : data[k] # 0

\* A call of Write or Read is past its first test only on an open instance,
\* with a buffer and a frame_count above 0; otherwise it has returned 0.
RefusedReturnsZero(p) ==
  /\ (Writing(p) \/ Reading(p)) =>
       (inst[p].header /\ ~loc[p].null /\ loc[p].frame_count > 0)
  /\ (pc[p] = "idle" /\ loc[p].op \in {"Write", "Read"}
        /\ (~inst[p].header \/ loc[p].null \/ loc[p].frame_count = 0)) =>
       loc[p].ret = 0

\* The first step of such a call is its last, and changes nothing shared.
RefusedChangesNothing ==
  /\ (\E isNull \in BOOLEAN, n \in LifeFrameCounts :
        \E frames \in FlatBuffers(CallerChannels("producer"), n) :
          /\ ~inst["producer"].header \/ isNull \/ n = 0
          /\ WriteBegin("producer", isNull, n, frames))
       => (pc' = pc /\ hdr' = hdr /\ data' = data /\ pending' = pending)
  /\ (\E isNull \in BOOLEAN, n \in LifeFrameCounts :
        /\ ~inst["consumer"].header \/ isNull \/ n = 0
        /\ ReadBegin("consumer", isNull, n))
       => (pc' = pc /\ hdr' = hdr /\ data' = data /\ pending' = pending)

\* C17: Write and Read return 0 and change neither index nor any sample when
\* the instance is not open (never opened, failed Open, after Close), when
\* the caller's buffer pointer is null, or when frame_count = 0.
C17_RefusedCallsChangeNothing ==
  /\ [](\A p \in Procs : RefusedReturnsZero(p))
  /\ [][RefusedChangesNothing]_vars

\* On a ring holding frames, a Write with a null buffer and a Read on a
\* closed instance have returned 0.
C17_Witness ==
  /\ pc["producer"] = "idle"
  /\ loc["producer"].op = "Write"
  /\ loc["producer"].null
  /\ loc["producer"].frame_count > 0
  /\ inst["producer"].header
  /\ loc["consumer"].op = "Read"
  /\ loc["consumer"].frame_count > 0
  /\ ~loc["consumer"].null
  /\ ~inst["consumer"].header
  /\ hdr.write_index > 0

\* While the ring is full a Write in flight has taken nothing.
FullRingTakesNothing(p) ==
  (Writing(p) /\ UsedNow = hdr.capacity_frames) => (pc[p] = "w_check" /\ loc[p].n = 0)

\* While the ring is full no step of Write changes an index or a sample, and
\* the step after the computation of to_write returns 0.
FullRingWriteStep(p) ==
  (WriteSteps(p) /\ UsedNow = hdr.capacity_frames)
    => /\ hdr' = hdr /\ data' = data /\ pending' = pending
       /\ pc[p] = "w_check" => (pc'[p] = "idle" /\ loc'[p].ret = 0)

\* C18: Write on a full ring (write_index - read_index = capacity_frames)
\* returns 0 and changes neither write_index, read_index nor any sample, so
\* an overrunning producer never overwrites unread frames.
C18_FullRingWriteChangesNothing ==
  /\ [](FullRingTakesNothing("producer"))
  /\ [][FullRingWriteStep("producer")]_vars

\* A Write on a ring that is full across the index wrap has returned 0.
C18_Witness ==
  /\ pc["producer"] = "idle"
  /\ loc["producer"].op = "Write"
  /\ loc["producer"].frame_count > 0
  /\ loc["producer"].ret = 0
  /\ UsedNow = hdr.capacity_frames
  /\ hdr.write_index < hdr.read_index
  /\ Len(pending) = hdr.capacity_frames

\* Steps the call of p has taken so far: the entry test, two header fields,
\* two index loads, the test of the count, then one step per frame copied.
Position(p) ==
  CASE pc[p] \in {"w_channels", "r_channels"} -> 1
    [] pc[p] \in {"w_capacity", "r_capacity"} -> 2
    [] pc[p] \in {"w_load_write", "r_load_write"} -> 3
    [] pc[p] \in {"w_load_read", "r_load_read"} -> 4
    [] pc[p] \in {"w_check", "r_check"} -> 5
    [] pc[p] \in {"w_copy", "r_copy", "w_store", "r_store"} -> 6 + loc[p].frame
    [] OTHER -> 0

InCall(p) == pc[p] # "idle"

\* A call in flight can always take its next step, has taken at most
\* 6 + min(frame_count, capacity_frames) steps, and copies at most that many
\* frames.
NeverWaits(p) ==
  InCall(p) =>
    /\ ENABLED (WriteSteps(p) \/ ReadSteps(p))
    /\ Position(p) <= 6 + MinU32(loc[p].frame_count, hdr.capacity_frames)
    /\ (Writing(p) \/ Reading(p)) =>
         /\ loc[p].n <= MinU32(loc[p].frame_count, hdr.capacity_frames)
         /\ loc[p].frame <= loc[p].n

\* Each step of the call takes it one step further or returns, and the
\* steps of the other process leave its position alone.
EveryStepAdvances(p) ==
  /\ (WriteSteps(p) \/ ReadSteps(p)) =>
       (pc'[p] = "idle" \/ Position(p)' = Position(p) + 1)
  /\ (\E q \in Procs \ {p} : pc'[q] # pc[q]) => (pc'[p] = pc[p] /\ loc'[p] = loc[p])

\* C19: Write and Read are wait-free: each call returns after at most
\* min(frame_count, capacity_frames) frame copies plus a constant number of
\* its own steps, whatever the other process does; it never waits for a
\* value written by the other side.
C19_WaitFree ==
  /\ [](\A p \in Procs : NeverWaits(p))
  /\ [][\A p \in Procs : EveryStepAdvances(p)]_vars

\* A Write asked for more than the capacity has taken all the steps it may
\* take and is about to publish, while a Read is between its two loads.
C19_Witness ==
  /\ pc["producer"] = "w_store"
  /\ loc["producer"].frame_count > hdr.capacity_frames
  /\ Position("producer") = 6 + hdr.capacity_frames
  /\ pc["consumer"] = "r_load_read"

\* Slots the Write in flight in p is filling: those of its to_write frames.
FillingSlots(p) ==
  IF pc[p] \in {"w_copy", "w_store"}
  THEN {FrameSlot(loc[p].write, j, loc[p].capacity) : j \in 0..(loc[p].n - 1)}
  ELSE {}

\* write_index is stored once per Write, after the last frame was copied.
PublishesAfterCopies(p) ==
  hdr'.write_index # hdr.write_index
    => (pc[p] = "w_store" /\ loc[p].frame = loc[p].n /\ pc'[p] = "idle")

\* The slot the reader copies next is not one the writer is filling.
ReaderAvoidsFilling(p, q) ==
  pc[q] = "r_copy" =>
    FrameSlot(loc[q].read, loc[q].frame, loc[q].capacity) \notin FillingSlots(p)

\* C20: write_index is stored exactly once per successful Write, only after
\* all to_write frames have been copied, so every published and unconsumed
\* frame index refers to a slot whose copy has completed, and a reader never
\* copies from a slot the writer is still filling.
C20_PublicationOrder ==
  /\ [](ReaderAvoidsFilling("producer", "consumer"))
  /\ [][PublishesAfterCopies("producer")]_vars

\* Slots the Read in flight in q is copying: those of its to_read frames.
ReadingSlots(q) ==
  IF pc[q] \in {"r_copy", "r_store"}
  THEN {FrameSlot(loc[q].read, j, loc[q].capacity) : j \in 0..(loc[q].n - 1)}
  ELSE {}

\* read_index is stored once per Read, after the last frame was copied out.
ConsumesAfterCopies(q) ==
  hdr'.read_index # hdr.read_index
    => (pc[q] = "r_store" /\ loc[q].frame = loc[q].n /\ pc'[q] = "idle")

\* The slot the writer stores into next holds no unread frame.
WriterAvoidsUnread(p) ==
  pc[p] = "w_copy" =>
    FrameSlot(loc[p].write, loc[p].frame, loc[p].capacity) \notin UnreadSlots

\* C21: with one writer and one reader, read_index is stored only after Read
\* has copied its frames out, the writer never stores into a slot holding a
\* frame that is unread or being copied, and the slots an in-flight Write
\* fills and those an in-flight Read copies are always disjoint.
C21_NoReadAfterOverwrite ==
  /\ [](/\ FillingSlots("producer") \cap ReadingSlots("consumer") = {}
        /\ WriterAvoidsUnread("producer"))
  /\ [][ConsumesAfterCopies("consumer")]_vars

\* C22: when an Open resets the ring while another process has a Write or
\* Read in flight (indices loaded before the reset, index stored after it),
\* then once all operations have completed write_index - read_index is in
\* [0, capacity_frames] and both sides agree on the used and free counts
\* (stated for processes that all use the parameters the header holds).
C22_ResetDoesNotRace ==
  (/\ Quiet
   /\ \A p \in Procs : /\ caller[p].channels = hdr.channels
                       /\ caller[p].capacity_frames = hdr.capacity_frames)
  =>
    /\ UsedNow \in 0..hdr.capacity_frames
    /\ FreeFrames(hdr.capacity_frames, UsedNow) = hdr.capacity_frames - UsedNow

\* C23: every frame Read returns is a frame some Write accepted into the
\* current header instance and that was not returned before, also when an
\* Open by another process resets the ring during the Write or Read; Read
\* returns no zero-filled, stale or repeated frames.
C23_ReadNeverFabricates ==
  \A p \in Procs :
    (pc[p] = "idle" /\ loc[p].op = "Read" /\ ~loc[p].null) =>
      /\ loc[p].ret = Len(loc[p].expect)
      /\ \A i \in 1..loc[p].ret :
           /\ i * caller[p].channels <= Len(loc[p].buf)
           /\ FrameAt(loc[p].buf, (i - 1) * caller[p].channels, caller[p].channels)
                = loc[p].expect[i]

\* The header and the backing object are as the reset of p's Open leaves them.
ResetOf(p) ==
  /\ hdr = FreshHeader(loc[p].arg_channels, loc[p].arg_capacity)
  /\ file.size = HeaderSize + SampleSize * loc[p].arg_channels * loc[p].arg_capacity

\* C24: when two processes run Open on the same ring name concurrently and
\* both resets interleave field by field, after both have completed the
\* header is the freshly reset header of exactly one of the two callers:
\* magic and version the constants, (channels, capacity_frames) the pair one
\* caller requested, never a mix, both indices 0, and the backing object of
\* the size matching that pair.
C24_LastResetWins ==
  (Quiet /\ \A p \in Procs : loc[p].op = "Open" /\ loc[p].ok /\ ~loc[p].kept)
    => \E p \in Procs : ResetOf(p)

\* The path is "/tmp/", the name without one leading '/', each further '/'
\* turned into '_', then ".ring".
PathAsDescribed(name, path) ==
  LET k == IF name[1] = "/" THEN 1 ELSE 0
      m == Len(name) - k
  IN /\ Len(path) = m + 10
     /\ SubSeq(path, 1, 5) = <<"/", "t", "m", "p", "/">>
     /\ \A i \in 1..m : path[5 + i] = IF name[i + k] = "/" THEN "_" ELSE name[i + k]
     /\ SubSeq(path, m + 6, m + 10) = <<".", "r", "i", "n", "g">>

Resolved(p) == loc[p].path # <<>>

\* C25: the backing path is /tmp/<n>.ring, <n> being the name with one
\* leading '/' removed and every remaining '/' replaced by '_'; hence
\* Open("/x") and Open("x") in two processes resolve to the same backing
\* object, for every non-empty x that does not start with '/'.
C25_NameResolution ==
  /\ \A p \in Procs : Resolved(p) => PathAsDescribed(loc[p].name, loc[p].path)
  /\ \A p \in Procs : \A q \in Procs :
       (/\ Resolved(p) /\ Resolved(q)
        /\ loc[q].name # <<>> /\ loc[q].name[1] # "/"
        /\ loc[p].name = <<"/">> \o loc[q].name)
         => loc[p].path = loc[q].path

\* One process has resolved "/a/" and the other "a/", to the same path.
C25_Witness ==
  /\ loc["producer"].name = <<"/", "a", "/">>
  /\ loc["consumer"].name = <<"a", "/">>
  /\ Resolved("producer")
  /\ Resolved("consumer")
  /\ loc["producer"].path = loc["consumer"].path

\* The step is one of the call p is in or begins.
StepOf(p) == pc'[p] # pc[p] \/ loc'[p] # loc[p]

\* The step leaves magic, version, channels and capacity_frames alone.
KeepsConfiguration ==
  /\ hdr'.magic = hdr.magic
  /\ hdr'.version = hdr.version
  /\ hdr'.channels = hdr.channels
  /\ hdr'.capacity_frames = hdr.capacity_frames

\* Sample k (1-based) lies in the slot of one of the n frame indices from
\* `index` on.
InSlotsFrom(k, index, n) ==
  \E j \in 0..(n - 1) :
    (k - 1) \div hdr.channels = ((index + j) % IndexModulus) % hdr.capacity_frames

\* A step of Write changes only samples of the slots of the indices
\* [write_index, write_index + to_write), and write_index only when it
\* returns, by the count it returns.
WriteFrameCondition(p) ==
  StepOf(p) =>
    /\ KeepsConfiguration
    /\ hdr'.read_index = hdr.read_index
    /\ Len(data') = Len(data)
    /\ \A k \in 1..Len(data) :
         data'[k] # data[k] => InSlotsFrom(k, hdr.write_index, loc[p].n)
    /\ IF pc'[p] = "idle"
       THEN Sub32(hdr'.write_index, hdr.write_index) = loc'[p].ret
       ELSE hdr'.write_index = hdr.write_index

\* A step of Read changes no sample, and read_index only when it returns,
\* by the count it returns.
ReadFrameCondition(q) ==
  StepOf(q) =>
    /\ KeepsConfiguration
    /\ hdr'.write_index = hdr.write_index
    /\ data' = data
    /\ IF pc'[q] = "idle"
       THEN Sub32(hdr'.read_index, hdr.read_index) = loc'[q].ret
       ELSE hdr'.read_index = hdr.read_index

\* C26: a Write changes only write_index, advancing it by exactly the
\* returned count, and the samples of the slots for the indices
\* [write_index, write_index + returned); a Read changes only read_index,
\* advancing it by exactly the returned count, and no sample; neither
\* changes magic, version, channels, capacity_frames or the other index.
C26_DataPathFrameCondition ==
  [][WriteFrameCondition("producer") /\ ReadFrameCondition("consumer")]_vars

\* A Write and a Read have both returned fewer frames than asked, the
\* indices being on either side of the wrap.
C26_Witness ==
  /\ pc["producer"] = "idle" /\ loc["producer"].op = "Write"
  /\ loc["producer"].ret > 0 /\ loc["producer"].ret < loc["producer"].frame_count
  /\ pc["consumer"] = "idle" /\ loc["consumer"].op = "Read"
  /\ loc["consumer"].ret > 0 /\ loc["consumer"].ret < loc["consumer"].frame_count
  /\ hdr.write_index < hdr.read_index
  /\ hdr.channels = 2

\* Frames of the caller's buffer that Read has written: those it has copied,
\* or the count it returned.
FramesDone(p) == IF pc[p] = "idle" THEN loc[p].ret ELSE loc[p].frame

\* C28: when Read returns n < frame_count, only the first n frames (n *
\* channels samples) of the destination buffer are written, and every sample
\* from frame n on keeps the value it had before the call.
C28_PartialReadLeavesRest ==
  \A p \in Procs :
    (loc[p].op = "Read" /\ ~loc[p].null) =>
      /\ Len(loc[p].buf) = loc[p].frame_count * caller[p].channels
      /\ \A k \in 1..Len(loc[p].buf) :
           IF k > FramesDone(p) * caller[p].channels
           THEN loc[p].buf[k] = Poison
           ELSE loc[p].buf[k] # Poison

\* A Read of a two-channel ring has returned one frame of the three asked.
C28_Witness ==
  /\ pc["consumer"] = "idle"
  /\ loc["consumer"].op = "Read"
  /\ loc["consumer"].frame_count = 3
  /\ loc["consumer"].ret = 1
  /\ caller["consumer"].channels = 2
  /\ loc["consumer"].buf[2] # Poison
  /\ loc["consumer"].buf[3] = Poison

\* A Write that is about to publish fewer frames than it was offered has put
\* the first to_write frames of the caller's buffer, in order, into the
\* slots of the indices from write_index on.
HeadIsInRing(p) ==
  (pc[p] = "w_store" /\ loc[p].n < loc[p].frame_count) =>
    \A j \in 0..(loc[p].n - 1) :
      FrameAt(data, SampleIndex(FrameSlot(loc[p].write, j, loc[p].capacity), loc[p].channels),
              loc[p].channels)
        = FrameAt(loc[p].buf, SampleIndex(j, loc[p].channels), loc[p].channels)

\* The frames a Read returned are the oldest frames accepted before it.
ReadReturnsHeads(q) ==
  (pc[q] = "idle" /\ loc[q].op = "Read") =>
    /\ Len(loc[q].expect) = loc[q].ret
    /\ FramesOf(loc[q].buf, loc[q].ret, caller[q].channels) = loc[q].expect

\* C27: when frame_count exceeds the free space, the frames accepted are
\* exactly the first to_write frames of the caller's buffer, in order, the
\* trailing frame_count - to_write frames being dropped, and a later Read
\* returns those first frames unchanged.
C27_PartialWriteKeepsHead ==
  HeadIsInRing("producer") /\ ReadReturnsHeads("consumer")

\* The accounting is intact: the header's used count is the number of frames
\* accepted and not yet returned, and is no more than the capacity.
AccountingIntact ==
  /\ UsedNow <= hdr.capacity_frames
  /\ Len(pending) = UsedNow

\* A writer that publishes after the other writer published since its load
\* of write_index stores its own stale index plus to_write.
LostUpdate(p) ==
  (WriteStore(p) /\ hdr.write_index # loc[p].write /\ AccountingIntact)
    => /\ hdr'.write_index = Add32(loc[p].write, loc[p].n)
       /\ ~AccountingIntact'

\* C29: with two writers calling Write concurrently on one ring, each
\* loading write_index before the other publishes, the used/free accounting
\* becomes corrupted: write_index - read_index (mod 2^32) exceeds
\* capacity_frames, or frames reported as accepted are not there for Read.
C29_TwoWritersCorruptAccounting == [][\A p \in Procs : LostUpdate(p)]_vars

C29_Witness ==
  /\ Quiet
  /\ \A p \in Procs : loc[p].op = "Write" /\ loc[p].ret > 0
  /\ Len(pending) > UsedNow

C29_WitnessUsedExceedsCapacity == Quiet /\ UsedNow > hdr.capacity_frames

\* C30: for every channels and capacity_frames Open accepts, the size used
\* to truncate and map the backing object is 24 + channels*capacity_frames*4
\* as a mathematical integer, so the mapping covers every sample that Write
\* and Read may address and no call addresses memory outside it.
C30_SizeNeverWraps ==
  \A p \in Procs :
    /\ (pc[p] = "idle" /\ loc[p].op = "Open" /\ loc[p].ok) =>
         /\ inst[p].mapping_size
              = HeaderSize + loc[p].arg_channels * loc[p].arg_capacity * SampleSize
         /\ SamplesIn(inst[p].mapping_size) >= hdr.channels * hdr.capacity_frames
    /\ pc[p] # "fault"

\* Positions of Write and Read past the to_write / to_read test.
PastCheck == {"w_copy", "w_store", "r_copy", "r_store"}

\* p, in Write or Read, has read capacity_frames as 0 and is at the test.
SawZeroCapacity(p) == pc[p] \in {"w_check", "r_check"} /\ loc[p].capacity = 0

\* C33: a Write or Read that reads capacity_frames == 0 from a header being
\* reset by another process returns 0 without a modulo by zero, without
\* copying a frame and without storing to either index.
C33_ZeroCapacityReturnsZero ==
  [][\A p \in Procs :
       /\ (SawZeroCapacity(p) /\ pc'[p] # pc[p]) =>
            /\ pc'[p] = "idle"
            /\ loc'[p].ret = 0
            /\ loc'[p].op = loc[p].op
            /\ hdr' = hdr
            /\ data' = data
            /\ loc'[p].buf = (IF loc[p].op = "Read" THEN loc[p].buf ELSE <<>>)
       /\ (pc'[p] \in PastCheck) => loc'[p].capacity # 0]_vars

C33_Witness ==
  /\ SawZeroCapacity("consumer")
  /\ loc["consumer"].frame_count > 0
  /\ pc["producer"] \in {"o_set_magic", "o_set_version", "o_set_channels", "o_set_capacity"}

\* C35: Open on an instance that has a ring open first releases the previous
\* mapping and descriptor: an instance never holds more than one descriptor
\* and one mapping, and between calls it holds one of each exactly when
\* is_open() is true and none otherwise.
C35_OneDescriptorOneMapping ==
  \A p \in Procs :
    /\ held[p].fds \in 0..1
    /\ held[p].maps \in 0..1
    /\ pc[p] = "idle" =>
         IF IsOpen(p) THEN held[p] = [fds |-> 1, maps |-> 1]
                      ELSE held[p] = [fds |-> 0, maps |-> 0]

C35_Witness ==
  \E p \in Procs :
    /\ pc[p] = "idle"
    /\ loc[p].op = "Open"
    /\ loc[p].wasOpen
    /\ loc[p].ok
    /\ IsOpen(p)

\* p begins an Open with create = false and valid arguments while the
\* backing object does not exist.
AttachesToNothing(p) ==
  /\ ~file.exists
  /\ \E cfg \in Configs : OpenBegin(p, FALSE, FALSE, cfg[1], cfg[2])

\* C36: Open with create = false on a name whose backing object does not
\* exist returns false, leaves the instance unopened and does not create the
\* backing object; only an Open with create = true brings a backing object
\* into existence.
C36_AttachNeverCreates ==
  [][/\ \A p \in Procs :
          AttachesToNothing(p) =>
            /\ pc'[p] = "idle"
            /\ loc'[p].op = "Open" /\ ~loc'[p].ok
            /\ ~IsOpen(p)'
            /\ held'[p] = [fds |-> 0, maps |-> 0]
            /\ file' = file
     /\ (~file.exists /\ file'.exists) =>
          \E p \in Procs : /\ pc[p] = "idle"
                           /\ pc'[p] = "o_truncate"
                           /\ loc'[p].op = "Open"
                           /\ loc'[p].create]_vars

C36_Witness ==
  /\ ~file.exists
  /\ \E p \in Procs :
       /\ pc[p] = "idle"
       /\ loc[p].op = "Open"
       /\ ~loc[p].create /\ ~loc[p].emptyName
       /\ loc[p].arg_channels > 0 /\ loc[p].arg_capacity > 0
       /\ ~loc[p].ok
       /\ ~IsOpen(p)

\* The oldest unread frame is eventually consumed: a Read has copied it and
\* is at the store of the new read index.
OldestIsConsumed == (UsedNow > 0) ~> (pc["consumer"] = "r_store")

\* A writer that got 0 from a Write on a full ring later gets more than 0.
RetryGetsSpace ==
  (/\ pc["producer"] = "idle" /\ loc["producer"].op = "Write"
   /\ loc["producer"].ret = 0 /\ UsedNow = hdr.capacity_frames)
    ~> (/\ pc["producer"] = "idle" /\ loc["producer"].op = "Write"
        /\ loc["producer"].ret > 0)

\* The progress alone: the ring stays neither non-empty nor full forever.
C34_Progress == OldestIsConsumed /\ RetryGetsSpace

\* What a Read hands back is what was accepted, oldest first.
DeliversAccepted(q) ==
  (pc[q] = "idle" /\ loc[q].op = "Read") =>
    \A i \in 1..loc[q].ret :
      /\ i <= Len(loc[q].expect)
      /\ FrameAt(loc[q].buf, SampleIndex(i - 1, caller[q].channels), caller[q].channels)
           = loc[q].expect[i]

\* C34: with one writer and one reader that keep calling, and no reset,
\* every frame accepted by a Write is eventually returned by a Read (it is
\* consumed, and what is handed back for it is that frame), and a writer
\* retrying on a full ring eventually gets a return value > 0.
C34_EveryFrameIsReturned ==
  /\ OldestIsConsumed
  /\ RetryGetsSpace
  /\ []DeliversAccepted("consumer")

\* No driver thread is inside an entry point.
DriverQuiet == \A t \in Threads : tpc[t] = "idle"

\* The count is the StartIO increments made less the decrements made, and
\* so never more than the increments: a count above them has wrapped.
IoCountNeverWraps ==
  g_io_client_count
    <= ios.starts + Cardinality({t \in Threads : tpc[t] = "start_anchor"})

RunningIffMoreStarts ==
  DriverQuiet => (DeviceIsRunning = 1 <=> ios.starts > ios.stops)

\* C37: under any interleaving of concurrent DriverStartIO and DriverStopIO
\* calls, unmatched StopIO calls included, g_io_client_count never wraps
\* below 0, and the device reports running exactly when more StartIO than
\* StopIO calls have completed.
C37_ClientCountNeverUnderflows == IoCountNeverWraps /\ RunningIffMoreStarts

FrameSizeInRange == g_buffer_frame_size \in MinBufferFrameSize..MaxBufferFrameSize

\* A DriverSetPropertyData call that returns an error stores nothing.
RejectedSetStoresNothing ==
  \A t \in Threads, r \in SetRequests :
    (DriverSetPropertyData(t, r) /\ SetStatus(r) # "kAudioHardwareNoError") =>
      /\ g_buffer_frame_size' = g_buffer_frame_size
      /\ g_sample_rate' = g_sample_rate

\* C38: after any sequence of DriverSetPropertyData calls g_buffer_frame_size
\* is in [64, 4096], so the divisor in DriverGetZeroTimeStamp is never 0, and
\* a rejected set request (value out of range, data too small, unknown
\* object or property) leaves g_buffer_frame_size and g_sample_rate as
\* they were.
C38_BufferFrameSizeInRange ==
  /\ [](FrameSizeInRange /\ \A t \in Threads : tpc[t] # "fault")
  /\ [][RejectedSetStoresNothing]_vars

C38_Witness ==
  /\ tpc["t1"] = "idle" /\ tloc["t1"].op = "SetPropertyData"
  /\ tloc["t1"].selector = "BufferFrameSize"
  /\ tloc["t1"].status = "kAudioHardwareNoError"
  /\ tpc["t2"] = "idle" /\ tloc["t2"].op = "SetPropertyData"
  /\ tloc["t2"].selector = "BufferFrameSize" /\ tloc["t2"].object = kObjectIDDevice
  /\ tloc["t2"].size_ok /\ ~tloc["t2"].null
  /\ tloc["t2"].value = MinBufferFrameSize - 1
  /\ tloc["t2"].status = "kAudioHardwareIllegalOperationError"
  /\ g_buffer_frame_size = MaxBufferFrameSize

\* ---- C31
\* A ReadInput call that has passed the zero-fill, or has returned.
ReadInputDone(t) ==
  /\ tloc[t].op = "DoIOOperation"
  /\ tloc[t].object = kObjectIDDevice
  /\ tloc[t].operation = "ReadInput"
  /\ tpc[t] = "io_return"

\* The whole io buffer is defined: the first `got` frames hold the samples
\* Read stored, none of them left as the host passed it, and every later
\* sample up to in_io_buffer_frame_size frames is zero.
IoBufferDefined(t) ==
  LET e == tloc[t]
  IN /\ Len(e.io) = e.frame_size * kChannelCount
     /\ e.got <= e.frame_size
     /\ \A k \in 1..Len(e.io) :
          IF k <= e.got * kChannelCount
          THEN e.io[k] = e.read_buf[k] /\ e.io[k] # Poison
          ELSE e.io[k] = 0

\* A ReadInput call on the device with a buffer returns success.
ReadInputSucceeds ==
  \A t \in Threads :
    (/\ tpc[t] = "idle"
     /\ tloc[t].op = "DoIOOperation"
     /\ tloc[t].object = kObjectIDDevice
     /\ tloc[t].operation = "ReadInput"
     /\ ~tloc[t].null)
      => tloc[t].status = "kAudioHardwareNoError"

\* C31: DriverDoIOOperation for ReadInput with a non-null buffer on the
\* device always returns success and leaves the whole io buffer defined:
\* the first got frames are the frames Read returned and every remaining
\* frame is zero, also when the ring is empty or was never opened.
C31_UnderrunLeavesBufferDefined ==
  /\ ReadInputSucceeds
  /\ \A t \in Threads : ReadInputDone(t) => IoBufferDefined(t)

\* A partial underrun: Read returned some frames but fewer than asked for.
C31_Witness ==
  \E t \in Threads :
    /\ ReadInputDone(t)
    /\ tloc[t].got > 0
    /\ tloc[t].got < tloc[t].frame_size
    /\ IoBufferDefined(t)

\* The ring was never opened and the whole buffer is zero.
C31_WitnessNeverOpened ==
  \E t \in Threads :
    /\ ReadInputDone(t)
    /\ ~inst["consumer"].header
    /\ tloc[t].frame_size > 0
    /\ \A k \in 1..Len(tloc[t].io) : tloc[t].io[k] = 0

\* ---- C32
\* Thread t is inside the scope of a lock_guard on g_ring_mutex.
InLockGuard(t) == tpc[t] \in {"init_mic", "init_return", "io_read", "io_write", "io_return"}

\* Thread t is at a ring call: an Open of DriverInitialize, the Read of the
\* mic-feed ring or the Write of the speaker-tap ring.
AtRingOperation(t) == tpc[t] \in {"init_mic", "io_read", "io_write"}

\* C32: ring operations issued by DriverDoIOOperation and the ring Opens of
\* DriverInitialize are mutually exclusive under g_ring_mutex: a thread in
\* the scope of the lock_guard owns the mutex, at most one thread is at a
\* ring call, and a call on the mic-feed ring instance is in progress only
\* on behalf of the thread that owns the mutex.
C32_RingOperationsSerialised ==
  /\ \A t \in Threads : InLockGuard(t) => g_ring_mutex = t
  /\ Cardinality({t \in Threads : AtRingOperation(t)}) <= 1
  /\ Cardinality({t \in Threads : InLockGuard(t)}) <= 1
  /\ pc["consumer"] # "idle" =>
       \E t \in Threads : tpc[t] \in {"init_mic", "io_read"} /\ g_ring_mutex = t

\* One IO client is in the middle of Read on the mic-feed ring while the
\* other has called DriverDoIOOperation and waits for the mutex.
C32_Witness ==
  \E t, u \in Threads :
    /\ t # u
    /\ tpc[t] = "io_read"
    /\ pc["consumer"] = "r_copy"
    /\ tpc[u] = "io_lock"
    /\ g_ring_mutex = t

\* An IO client waits for the mutex while DriverInitialize opens the ring.
C32_WitnessInitialize ==
  \E t, u \in Threads :
    /\ t # u
    /\ tpc[t] = "init_mic"
    /\ pc["consumer"] \notin {"idle"}
    /\ tpc[u] = "io_lock"


=============================================================================
